---- MODULE Spec2Model ----
(***************************************************************************)
(* A model of the GoX template compiler (llyb120/gox): the skipper         *)
(* primitives, the Sql(...) call finder, the template tokenizer, the code  *)
(* emitter, the run-time QueryBuilder, a Parser over successive files,     *)
(* the driver (Compile, processDirectory, processGoxFile) and the import   *)
(* injection of the generator (addNecessaryImports).                       *)
(*                                                                         *)
(* Strings are sequences of one-character strings, indexed from 0 as in    *)
(* Go (At, Slice).  Generated Go code is a sequence whose elements are     *)
(* single characters or identifier atoms (an identifier, a selector or a   *)
(* keyword of the generated code written as one element, e.g.              *)
(* "__gox_sql_0_builder" or ".AddText"); an atom never equals a character  *)
(* the scanners look for.                                                  *)
(***************************************************************************)
EXTENDS Integers, Sequences, FiniteSets, TLC

VARIABLES
    body,            \* the template body handed to parseSQLBlock
    smartScopeMode,  \* Parser.smartScopeMode
    pc,              \* position of the template pipeline
    i,               \* tokenizeSQLContent: cursor
    textStart,       \* tokenizeSQLContent: start of the pending text run
    tokens,          \* tokenizeSQLContent: tokens produced so far
    parts,           \* generateGoCodeForSQL: the statements emitted
    ip,              \* index of the next emitted statement to execute
    qb,              \* the run-time QueryBuilder: [parts, args]
    query,           \* the Query returned by Build
    src,             \* the host source handed to findSQLBlocks
    fi,              \* findSQLBlocks: cursor
    blocks,          \* findSQLBlocks: call sites reported so far
    fpc,             \* position of the call finder
    fileContent,     \* preprocessFile: content, the text of the file being processed
    nfiles,          \* number of files this Parser has been handed
    lastCall,        \* the last call made on a QueryBuilder by a host program
    callLog,         \* the AddText and AddParam calls made on the builder, in order
    opts,            \* the fields of the Compiler
    bad,             \* the input files whose text ParseFile or GenerateFile rejects
    fsys,            \* the files: modification time of each path, 0 when absent
    clock,           \* the time of the system
    dpc,             \* position of Compile
    tasks,           \* the processGoxFile call of each input file in this run
    runs,            \* number of calls of Compile that have returned
    prev,            \* the tasks as the last call of Compile that returned left them
    removed,         \* the paths the cleanup of this run has deleted
    fs0,             \* the files as they were when this run began
    ctlLine,         \* findControlStructureParen: content, the line it is called on
    ctlParen,        \* findControlStructureParen: the index returned, -2 before the call
    processed,       \* preprocessFile: content while the call sites are replaced
    ri,              \* preprocessFile: number of call sites still to replace, -1 before the loop
    heap,           \* the backing arrays allocated for args slices, each with its cells
    btext,          \* QueryBuilder.parts of the builder of the host program
    bargs,          \* QueryBuilder.args of that builder: [arr, len, cap]
    held,           \* the Queries the host program holds: [sql, args]
    kept,           \* what each held Query was when its own last operation returned
    nops,           \* number of calls the host program has made
    walkLeft,       \* processDirectory: the entries filepath.WalkDir has still to visit
    started,        \* processDirectory: number of goroutines started for each path
    genCode,        \* addNecessaryImports: code, as its lines
    impBlock,       \* the import block GenerateImportBlock returned, as its lines
    outLines,       \* the code addNecessaryImports returns, as its lines
    gpc             \* position of addNecessaryImports

vars == <<body, smartScopeMode, pc, i, textStart, tokens, parts, ip, qb, query,
          src, fi, blocks, fpc, fileContent, nfiles, lastCall, callLog,
          opts, bad, fsys, clock, dpc, tasks, runs, prev, removed, fs0,
          ctlLine, ctlParen,
          processed, ri,
          heap, btext, bargs, held, kept, nops,
          walkLeft, started,
          genCode, impBlock, outLines, gpc>>

tplVars == <<body, smartScopeMode, pc, i, textStart, tokens, parts, ip, qb, query>>
findVars == <<src, fi, blocks, fpc>>
fileVars == <<fileContent, nfiles>>
bldVars == <<lastCall, callLog>>
drvVars == <<opts, bad, fsys, clock, dpc, tasks, runs, prev, removed, fs0>>
scanVars == <<ctlLine, ctlParen>>
rwVars == <<processed, ri>>
hostVars == <<heap, btext, bargs, held, kept, nops>>
walkVars == <<walkLeft, started>>
impVars == <<genCode, impBlock, outLines, gpc>>
\* what a step of the template pipeline, of the call finder, of a Parser over
\* its files, and of a host program on a builder, leaves alone
offTpl == <<findVars, fileVars, bldVars, drvVars, scanVars, rwVars, hostVars, walkVars, impVars>>
offFind == <<tplVars, fileVars, bldVars, drvVars, scanVars, rwVars, hostVars, walkVars, impVars>>
offParser == <<findVars, bldVars, drvVars, scanVars, rwVars, hostVars, walkVars, impVars>>
offBuilder == <<body, smartScopeMode, i, textStart, tokens, parts, ip, findVars, fileVars, drvVars, scanVars, rwVars, hostVars, walkVars, impVars>>
offDriver == <<tplVars, findVars, fileVars, bldVars, scanVars, rwVars, hostVars, walkVars, impVars>>
offScan == <<tplVars, findVars, fileVars, bldVars, drvVars, rwVars, hostVars, walkVars, impVars>>
offRewrite == <<tplVars, findVars, fileVars, bldVars, drvVars, scanVars, hostVars, walkVars, impVars>>
offHost == <<tplVars, findVars, fileVars, bldVars, drvVars, scanVars, rwVars, walkVars, impVars>>
offWalk == <<tplVars, findVars, fileVars, bldVars, drvVars, scanVars, rwVars, hostVars, impVars>>
offFindRewrite == <<tplVars, fileVars, bldVars, drvVars, scanVars, hostVars, walkVars, impVars>>
offDirWalk == <<tplVars, findVars, fileVars, bldVars, scanVars, rwVars, hostVars, impVars>>
offImports == <<tplVars, findVars, fileVars, bldVars, drvVars, scanVars, rwVars, hostVars, walkVars>>

-----------------------------------------------------------------------------
(* Bounds of the model.                                                    *)

\* number of fragments a template body is built from
MaxFrags == 3
\* number of fragments a host source is built from
MaxSrcFrags == 3

-----------------------------------------------------------------------------
(* Go string helpers.                                                      *)

At(s, k) == s[k + 1]
Slice(s, a, b) == SubSeq(s, a + 1, b)
From(s, a) == SubSeq(s, a + 1, Len(s))

Min(S) == CHOOSE m \in S : \A k \in S : m <= k
Max(S) == CHOOSE m \in S : \A k \in S : m >= k

RECURSIVE Flatten(_)
Flatten(ss) == IF ss = <<>> THEN <<>> ELSE Head(ss) \o Flatten(Tail(ss))

RECURSIVE Join(_, _)
Join(ss, sep) ==
    IF ss = <<>> THEN <<>>
    ELSE IF Len(ss) = 1 THEN Head(ss)
    ELSE Head(ss) \o sep \o Join(Tail(ss), sep)

IsSpace(c) == c \in {" ", "\t", "\n", "\r"}

\* strings.TrimSpace
TrimSpace(s) ==
    LET keep == {k \in 1..Len(s) : ~IsSpace(s[k])}
    IN  IF keep = {} THEN <<>> ELSE SubSeq(s, Min(keep), Max(keep))

\* strings.HasPrefix
HasPrefix(s, p) == Len(s) >= Len(p) /\ SubSeq(s, 1, Len(p)) = p

\* strings.Index: first index of sub in s, or -1
Index(s, sub) ==
    LET hits == {k \in 0..(Len(s) - Len(sub)) : Slice(s, k, k + Len(sub)) = sub}
    IN  IF hits = {} THEN -1 ELSE Min(hits)

\* strings.Split(s, "\n")
RECURSIVE SplitLines(_)
SplitLines(s) ==
    LET k == Index(s, <<"\n">>)
    IN  IF k = -1 THEN <<s>>
        ELSE <<Slice(s, 0, k)>> \o SplitLines(From(s, k + 1))

\* strconv.Quote on the characters the model uses
EscapeChar(c) ==
    IF c = "\"" THEN <<"\\", "\"">>
    ELSE IF c = "\\" THEN <<"\\", "\\">>
    ELSE IF c = "\n" THEN <<"\\", "n">>
    ELSE IF c = "\t" THEN <<"\\", "t">>
    ELSE IF c = "\r" THEN <<"\\", "r">>
    ELSE <<c>>

RECURSIVE Escape(_)
Escape(s) == IF s = <<>> THEN <<>> ELSE EscapeChar(Head(s)) \o Escape(Tail(s))

Quote(s) == <<"\"">> \o Escape(s) \o <<"\"">>

-----------------------------------------------------------------------------
(* Skipper primitives.                                                     *)

\* the back quote that delimits a Go raw string (a string of the model cannot
\* hold the character itself)
BackQuote == "<backquote>"

RECURSIVE SkipStringBody(_, _, _)
SkipStringBody(content, k, quote) ==
    IF k < Len(content) /\ At(content, k) # quote
    THEN IF At(content, k) = "\\" /\ k + 1 < Len(content) /\ quote # BackQuote
         THEN SkipStringBody(content, k + 2, quote)
         ELSE SkipStringBody(content, k + 1, quote)
    ELSE k

\* "if i < len(content) { return i + 1 }; return i"
PastQuote(content, k) == IF k < Len(content) THEN k + 1 ELSE k

skipStringLiteral(content, pos, quote) ==
    IF pos >= Len(content) \/ At(content, pos) # quote THEN pos
    ELSE PastQuote(content, SkipStringBody(content, pos + 1, quote))

IsQuoteChar(c) == c \in {"\"", "'", BackQuote}

\* the counting loop of findMatchingBrace / findMatchingParen
RECURSIVE MatchLoop(_, _, _, _, _)
MatchLoop(content, k, count, open, close) ==
    IF k < Len(content) /\ count > 0
    THEN LET c == At(content, k)
         IN  IF c = open THEN MatchLoop(content, k + 1, count + 1, open, close)
             ELSE IF c = close THEN MatchLoop(content, k + 1, count - 1, open, close)
             ELSE IF IsQuoteChar(c)
                  THEN MatchLoop(content, skipStringLiteral(content, k, c), count, open, close)
             ELSE MatchLoop(content, k + 1, count, open, close)
    ELSE [k |-> k, count |-> count]

\* the two results after the loop r: the content and the index of the closer,
\* or "" and -1
Matched(content, start, r) ==
    IF r.count = 0
    THEN [content |-> Slice(content, start, r.k - 1), end |-> r.k - 1]
    ELSE [content |-> <<>>, end |-> -1]

findMatchingBrace(content, start) ==
    Matched(content, start, MatchLoop(content, start, 1, "{", "}"))

findMatchingParen(content, start) ==
    Matched(content, start, MatchLoop(content, start, 1, "(", ")"))

\* the punctuation and white space of the model's alphabet; every other
\* element of a string is an identifier character or an identifier atom
Punctuation ==
    {" ", "\t", "\n", "\r", "#", "$", "@", "{", "}", "(", ")", "\"", "'", BackQuote,
     "\\", "-", "/", "*", ".", ",", ";", "=", ":", "?", "!", "+", "<", ">", "|", "&"}

\* an element that ends in an identifier character
EndsIdent(c) == c \notin Punctuation

\* mutant: no parenthesis is taken for the one of a call
isFollowingIdentifierNever(content, parenPos) == FALSE

isFollowingIdentifier(content, parenPos) ==
    IF parenPos = 0 THEN FALSE ELSE EndsIdent(At(content, parenPos - 1))

\* the inner loop of findControlStructureParen that steps over a call's arguments
RECURSIVE SkipCallArgs(_, _, _)
SkipCallArgs(content, k, parenCount) ==
    IF k < Len(content) /\ parenCount > 0
    THEN LET c == At(content, k)
         IN  IF c = "(" THEN SkipCallArgs(content, k + 1, parenCount + 1)
             ELSE IF c = ")" THEN SkipCallArgs(content, k + 1, parenCount - 1)
             ELSE IF IsQuoteChar(c)
                  THEN SkipCallArgs(content, skipStringLiteral(content, k, c), parenCount)
             ELSE SkipCallArgs(content, k + 1, parenCount)
    ELSE k

RECURSIVE ControlParenLoop(_, _, _)
ControlParenLoop(content, k, lastParen) ==
    IF k < Len(content)
    THEN LET c == At(content, k)
         IN  IF c = "("
             THEN IF isFollowingIdentifier(content, k)
                  THEN ControlParenLoop(content, SkipCallArgs(content, k + 1, 1), lastParen)
                  ELSE ControlParenLoop(content, k + 1, k)
             ELSE IF IsQuoteChar(c)
                  THEN ControlParenLoop(content, skipStringLiteral(content, k, c), lastParen)
             ELSE ControlParenLoop(content, k + 1, lastParen)
    ELSE lastParen

findControlStructureParen(content) == ControlParenLoop(content, 0, -1)

\* the index of the end of the line that holds position k
RECURSIVE LineEndFrom(_, _)
LineEndFrom(content, k) ==
    IF k < Len(content) /\ At(content, k) # "\n" /\ At(content, k) # "\r"
    THEN LineEndFrom(content, k + 1)
    ELSE k

NoSmartScope == [ShouldHandle |-> FALSE, EndPos |-> 0, LineEndPos |-> 0, BlockContent |-> <<>>]

\* the result once the closing parenthesis at endParen is known
SmartScopeAt(basePos, totalContent, actualEndPos, blockEndLine) ==
    [ShouldHandle |-> TRUE,
     EndPos       |-> actualEndPos,
     LineEndPos   |-> blockEndLine,
     BlockContent |-> Slice(totalContent, basePos + 1, blockEndLine)]

SmartScopeEnd(basePos, lineContent, totalContent, endParen) ==
    IF endParen = -1 \/ endParen < Len(lineContent) THEN NoSmartScope
    ELSE SmartScopeAt(basePos, totalContent, basePos + 1 + endParen,
                      LineEndFrom(totalContent, basePos + 1 + endParen + 1))

SmartScopeParen(basePos, lineContent, fullContent, totalContent, parenIndex) ==
    IF parenIndex = -1 THEN NoSmartScope
    ELSE SmartScopeEnd(basePos, lineContent, totalContent,
                       findMatchingParen(fullContent, parenIndex + 1).end)

trySmartScopeProcessing(smart, basePos, lineContent, fullContent, totalContent) ==
    IF ~smart \/ Index(lineContent, <<"(">>) = -1 THEN NoSmartScope
    ELSE SmartScopeParen(basePos, lineContent, fullContent, totalContent,
                         findControlStructureParen(lineContent))

-----------------------------------------------------------------------------
(* Template tokenizer.                                                     *)

SQLTokenText == "SQLTokenText"
SQLTokenParam == "SQLTokenParam"
SQLTokenTextExpr == "SQLTokenTextExpr"
SQLTokenAtBlock == "SQLTokenAtBlock"
SQLTokenAtLine == "SQLTokenAtLine"
SQLTokenCodeBlock == "SQLTokenCodeBlock"
SQLTokenDoubleAtBlock == "SQLTokenDoubleAtBlock"

SQLToken(type, content, start, end) ==
    [Type |-> type, Content |-> content, Start |-> start, End |-> end]

SigilPrefix == {"#", "$", "@"}

\* "add the preceding text": the block repeated in front of every sigil
FlushText(content, toks, ts, k) ==
    IF k > ts /\ TrimSpace(Slice(content, ts, k)) # <<>>
    THEN Append(toks, SQLToken(SQLTokenText, Slice(content, ts, k), ts, k))
    ELSE toks

\* which branch of the loop body of tokenizeSQLContent is taken at cursor k
TokBranch(content, k) ==
    LET n == Len(content)
        c == At(content, k)
        inner == k < n - 1
    IN  IF inner /\ c = "#" /\ At(content, k + 1) = "{" THEN "param"
        ELSE IF inner /\ c = "$" /\ At(content, k + 1) = "{" THEN "textexpr"
        ELSE IF inner /\ c = "@"
             THEN IF k + 2 < n /\ At(content, k + 1) = "@" /\ At(content, k + 2) = "{"
                  THEN "doubleat"
                  ELSE IF k + 1 < n /\ At(content, k + 1) = "{" THEN "atblock"
                  ELSE "atline"
        ELSE IF c = "{" /\ (k = 0 \/ At(content, k - 1) \notin SigilPrefix) THEN "code"
        ELSE "char"

\* mutant: an opener whose brace is not matched is looked at again
SigilMatchedStuck(st, type, flushed, m) ==
    IF m.end # -1
    THEN [i |-> m.end + 1, textStart |-> m.end + 1,
          tokens |-> Append(flushed, SQLToken(type, m.content, st.i, m.end + 1))]
    ELSE [i |-> st.i, textStart |-> st.textStart, tokens |-> flushed]

\* a sigil that opens with a brace, after the flush and the brace match m:
\* emit and skip, or fall through to i++ when the brace is not matched
SigilMatched(st, type, flushed, m) ==
    IF m.end # -1
    THEN [i |-> m.end + 1, textStart |-> m.end + 1,
          tokens |-> Append(flushed, SQLToken(type, m.content, st.i, m.end + 1))]
    ELSE [i |-> st.i + 1, textStart |-> st.textStart, tokens |-> flushed]

SigilStep(content, st, type, off) ==
    SigilMatched(st, type, FlushText(content, st.tokens, st.textStart, st.i),
                 findMatchingBrace(content, st.i + off))

\* the first brace of the line of an @ shorthand that opens a code block
OriginalBracePos(content, at, lineEnd) ==
    LET cands == {p \in (at + 2)..(lineEnd - 1) :
                     At(content, p) = "{" /\ At(content, p - 1) \notin SigilPrefix}
    IN  IF cands = {} THEN -1 ELSE Min(cands)

RECURSIVE TrimBlanksBack(_, _, _)
TrimBlanksBack(content, atEnd, lo) ==
    IF atEnd > lo /\ At(content, atEnd - 1) \in {" ", "\t"}
    THEN TrimBlanksBack(content, atEnd - 1, lo)
    ELSE atEnd

\* "if trimmed != "" { tokens = append(tokens, AtLine token) }"
WithLine(flushed, trimmed, at, atEnd) ==
    IF trimmed # <<>> THEN Append(flushed, SQLToken(SQLTokenAtLine, trimmed, at, atEnd))
    ELSE flushed

\* mutant: the newline token is added only in front of a code block
AtLineTokensBraceOnly(content, at, flushed, lineEnd, bracePos, atEnd, smartResult) ==
    IF bracePos # -1
    THEN [i |-> bracePos, textStart |-> bracePos,
          tokens |-> Append(WithLine(flushed, TrimSpace(Slice(content, at + 1, atEnd)), at, atEnd),
                            SQLToken(SQLTokenText, <<"\n">>, atEnd, atEnd))]
    ELSE [i |-> lineEnd, textStart |-> lineEnd,
          tokens |-> WithLine(flushed, TrimSpace(Slice(content, at + 1, atEnd)), at, atEnd)]

\* the @xxx shorthand at position at, once the flush, the line end, the brace
\* and the smart-scope verdict are known
AtLineTokens(content, at, flushed, lineEnd, bracePos, atEnd, smartResult) ==
    IF smartResult.ShouldHandle
    THEN [i |-> smartResult.LineEndPos, textStart |-> smartResult.LineEndPos,
          tokens |-> flushed \o
              <<SQLToken(SQLTokenAtBlock, TrimSpace(smartResult.BlockContent), at,
                         smartResult.LineEndPos),
                SQLToken(SQLTokenText, <<"\n">>, smartResult.LineEndPos,
                         smartResult.LineEndPos)>>]
    ELSE IF bracePos # -1
    THEN [i |-> bracePos, textStart |-> bracePos,
          tokens |-> Append(WithLine(flushed, TrimSpace(Slice(content, at + 1, atEnd)), at, atEnd),
                            SQLToken(SQLTokenText, <<"\n">>, atEnd, atEnd))]
    ELSE [i |-> lineEnd, textStart |-> lineEnd,
          tokens |-> Append(WithLine(flushed, TrimSpace(Slice(content, at + 1, atEnd)), at, atEnd),
                            SQLToken(SQLTokenText, <<"\n">>, lineEnd, lineEnd))]

AtLineEnd(content, smart, at, flushed, lineEnd, bracePos, atEnd) ==
    AtLineTokens(content, at, flushed, lineEnd, bracePos, atEnd,
                 trySmartScopeProcessing(smart, at, Slice(content, at + 1, atEnd),
                                         From(content, at + 1), content))

AtLineBraceAt(content, smart, at, flushed, lineEnd, bracePos) ==
    AtLineEnd(content, smart, at, flushed, lineEnd, bracePos,
              IF bracePos # -1 THEN TrimBlanksBack(content, bracePos, at + 1) ELSE lineEnd)

AtLineLine(content, smart, at, flushed, lineEnd) ==
    AtLineBraceAt(content, smart, at, flushed, lineEnd, OriginalBracePos(content, at, lineEnd))

\* the @xxx shorthand branch
AtLineStep(content, smart, st) ==
    AtLineLine(content, smart, st.i, FlushText(content, st.tokens, st.textStart, st.i),
               LineEndFrom(content, st.i + 1))

\* one iteration of the loop of tokenizeSQLContent, taking branch br
TokStepOn(content, smart, st, br) ==
    CASE br = "param"    -> SigilStep(content, st, SQLTokenParam, 2)
      [] br = "textexpr" -> SigilStep(content, st, SQLTokenTextExpr, 2)
      [] br = "doubleat" -> SigilStep(content, st, SQLTokenDoubleAtBlock, 3)
      [] br = "atblock"  -> SigilStep(content, st, SQLTokenAtBlock, 2)
      [] br = "atline"   -> AtLineStep(content, smart, st)
      [] br = "code"     -> SigilStep(content, st, SQLTokenCodeBlock, 1)
      [] OTHER           -> [i |-> st.i + 1, textStart |-> st.textStart, tokens |-> st.tokens]

TokStep(content, smart, st) == TokStepOn(content, smart, st, TokBranch(content, st.i))

\* "add the last text": the flush after the loop
TokFinish(content, st) ==
    IF st.textStart < Len(content) /\ TrimSpace(From(content, st.textStart)) # <<>>
    THEN Append(st.tokens,
                SQLToken(SQLTokenText, From(content, st.textStart), st.textStart, Len(content)))
    ELSE st.tokens

RECURSIVE TokLoop(_, _, _)
TokLoop(content, smart, st) ==
    IF st.i < Len(content) THEN TokLoop(content, smart, TokStep(content, smart, st)) ELSE st

tokenizeSQLContent(content, smart) ==
    TokFinish(content, TokLoop(content, smart, [i |-> 0, textStart |-> 0, tokens |-> <<>>]))

-----------------------------------------------------------------------------
(* Nodes.                                                                  *)

SQLText == "SQLText"
SQLExprParam == "SQLExprParam"
SQLExprText == "SQLExprText"
SQLExprAtText == "SQLExprAtText"
SQLExprDoubleAtQuery == "SQLExprDoubleAtQuery"
SQLExprCode == "SQLExprCode"

NilExpr == [ok |-> FALSE, str |-> <<>>]

\* tryParseExpr followed by exprToString.  go/parser is a library: the model
\* accepts the expression forms the bounded inputs can spell, an identifier
\* (*ast.Ident, printed as its name) and an integer literal (*ast.BasicLit,
\* printed as its value); the empty string and every other content the inputs
\* spell (sigil characters, white space between operands, "--", an unnamed
\* brace pair) is no Go expression and yields nil.
tryParseExpr(content) ==
    LET c == TrimSpace(content)
    IN  IF c = <<>> THEN NilExpr
        ELSE IF \A k \in 1..Len(c) : EndsIdent(c[k]) THEN [ok |-> TRUE, str |-> c]
        ELSE NilExpr

SQLNode(kind, content, expr) == [Kind |-> kind, Content |-> content, Expr |-> expr]

tokenToNode(token) ==
    CASE token.Type = SQLTokenText -> SQLNode(SQLText, token.Content, NilExpr)
      [] token.Type = SQLTokenParam ->
            SQLNode(SQLExprParam, token.Content, tryParseExpr(token.Content))
      [] token.Type = SQLTokenTextExpr ->
            SQLNode(SQLExprText, token.Content, tryParseExpr(token.Content))
      [] token.Type = SQLTokenAtBlock -> SQLNode(SQLExprAtText, token.Content, NilExpr)
      [] token.Type = SQLTokenAtLine -> SQLNode(SQLExprAtText, token.Content, NilExpr)
      [] token.Type = SQLTokenDoubleAtBlock ->
            SQLNode(SQLExprDoubleAtQuery, token.Content, NilExpr)
      [] token.Type = SQLTokenCodeBlock ->
            SQLNode(SQLExprCode, token.Content, tryParseExpr(token.Content))

tokensToNodes(toks) == [k \in 1..Len(toks) |-> tokenToNode(toks[k])]

parseSQLBlock(sqlContent, varName, smart) ==
    [Content |-> tokensToNodes(tokenizeSQLContent(sqlContent, smart)), VarName |-> varName]

\* the nil error
NoError == "nil"

\* mutant: a body without tokens is an error
ParseErrNoTokens(sqlContent, varName, smart) ==
    IF tokenizeSQLContent(sqlContent, smart) = <<>> THEN "no tokens" ELSE NoError

\* the error parseSQLBlock returns with the block: "}, nil"
ParseErr(sqlContent, varName, smart) == NoError

-----------------------------------------------------------------------------
(* Code emitter.                                                           *)

BuilderOf(varName) == varName \o "_builder"

\* fmt.Sprintf("%s.AddText(%s)", builderName, arg) and its AddParam twin
AddTextCall(builderName, arg) == <<builderName, ".AddText", "(">> \o arg \o <<")">>
\* mutant: a parameter emitted as text
AddParamAsText(builderName, arg) == <<builderName, ".AddText", "(">> \o arg \o <<")">>
AddParamCall(builderName, arg) == <<builderName, ".AddParam", "(">> \o arg \o <<")">>

NewBuilderStmt(varName) ==
    <<BuilderOf(varName), " ", ":", "=", " ", "gox.NewQueryBuilder", "(", ")">>

BuildStmt(varName) ==
    <<varName, " ", ":", "=", " ", BuilderOf(varName), ".Build", "(", ")">>

\* the wrapper emitted for a #{...} whose content is no simple expression
ParamWrapper(codeContent, builderName) ==
    <<"if", " ", "__result", " ", ":", "=", " ", "func", "(", ")", " ", "interface",
      "{", "}", " ", "{", "\n", "\t", "\t", "\t">>
    \o codeContent
    \o <<"\n", "\t", "\t", "\t", "return", " ", "nil", "\n", "\t", "\t", "}", "(", ")",
         ";", " ", "__result", " ", "!", "=", " ", "nil", " ", "{", "\n", "\t", "\t", "\t",
         builderName, ".AddParam", "(", "__result", ")", "\n", "\t", "\t", "}">>

Sep2 == <<"\n", "\t", "\t">>
Sep3 == <<"\n", "\t", "\t", "\t">>

\* the calls emitted for the lines of one SQLText node
RECURSIVE TextLineParts(_, _, _)
TextLineParts(lines, k, builderName) ==
    IF k > Len(lines) THEN <<>>
    ELSE LET line == lines[k]
             trimmedLine == TrimSpace(line)
             last == (k = Len(lines))
             rest == TextLineParts(lines, k + 1, builderName)
         IN  IF HasPrefix(trimmedLine, <<"/", "/">>) \/ HasPrefix(trimmedLine, <<"-", "-">>)
             THEN rest
             ELSE IF line # <<>> \/ ~last
             THEN <<AddTextCall(builderName, Quote(line))>>
                  \o (IF ~last THEN <<AddTextCall(builderName, Quote(<<"\n">>))>> ELSE <<>>)
                  \o rest
             ELSE rest

TextParts(text, builderName) ==
    IF text = <<>> THEN <<>> ELSE TextLineParts(SplitLines(text), 1, builderName)

\* brace counting of the #{ and ${ sweeps of processCodeBlockExpressions
RECURSIVE NaiveBraceLoop(_, _, _)
NaiveBraceLoop(result, end, braceCount) ==
    IF end < Len(result) /\ braceCount > 0
    THEN IF At(result, end) = "{" THEN NaiveBraceLoop(result, end + 1, braceCount + 1)
         ELSE IF At(result, end) = "}" THEN NaiveBraceLoop(result, end + 1, braceCount - 1)
         ELSE NaiveBraceLoop(result, end + 1, braceCount)
    ELSE [end |-> end, braceCount |-> braceCount]

RECURSIVE generateGoCodeForSQL(_, _)
RECURSIVE processCodeBlockExpressions(_, _, _)
RECURSIVE processSQLPartForParams(_, _, _)
RECURSIVE processSmartScopeContent(_, _, _)
RECURSIVE PartLoop(_, _, _, _, _, _)
RECURSIVE SmartLoop(_, _, _, _, _)
RECURSIVE SweepDoubleAt(_, _, _)
RECURSIVE SweepAtBlock(_, _, _)
RECURSIVE SweepAtLine(_, _, _, _)
RECURSIVE SweepParam(_, _)
RECURSIVE SweepTextExpr(_, _)
RECURSIVE NodeListParts(_, _, _, _)

\* flushText of processSQLPartForParams
FlushBuf(calls, textBuf, builderName) ==
    IF Len(textBuf) > 0 THEN Append(calls, AddTextCall(builderName, Quote(textBuf))) ELSE calls

\* "if processed != "" { calls = append(calls, processed) }"
AppendNonEmpty(calls, code) == IF code # <<>> THEN Append(calls, code) ELSE calls

\* what every caller of processSQLPartForParams does with its two results:
\* the quoted SQL first when it is not empty, then the calls
SQLAndCalls(r, builderName) ==
    (IF r.processedSQL # <<>> THEN <<AddTextCall(builderName, Quote(r.processedSQL))>> ELSE <<>>)
    \o r.calls

\* the calls of a non-empty shorthand line
LineCalls(lineContent, builderName, smart) ==
    IF lineContent # <<>> THEN processSQLPartForParams(lineContent, builderName, smart).calls
    ELSE <<>>

\* the @xxx branch of processSQLPartForParams, the line ending at lineEnd
PartAtLine(sqlPart, k, flushed, builderName, smart, lineEnd, smartResult) ==
    IF smartResult.ShouldHandle
    THEN PartLoop(sqlPart, smartResult.LineEndPos, <<>>,
                  flushed \o
                  <<AddTextCall(builderName, Quote(TrimSpace(smartResult.BlockContent))),
                    AddTextCall(builderName, Quote(<<"\n">>))>>,
                  builderName, smart)
    ELSE PartLoop(sqlPart, lineEnd, <<>>,
                  (flushed \o LineCalls(TrimSpace(Slice(sqlPart, k + 1, lineEnd)), builderName, smart))
                  \o <<AddTextCall(builderName, Quote(<<"\n">>))>>,
                  builderName, smart)

\* one iteration of the loop of processSQLPartForParams; flushed is the call
\* list after flushText, m1..m3 the brace matches from k+1, k+2 and k+3
PartStep(sqlPart, k, textBuf, calls, builderName, smart, flushed, m1, m2, m3) ==
    LET n == Len(sqlPart)
        c == At(sqlPart, k)
        next == IF k + 1 < n THEN At(sqlPart, k + 1) ELSE ""
        next2 == IF k + 2 < n THEN At(sqlPart, k + 2) ELSE ""
        isBlockStart == next = "{" \/ (next = "@" /\ next2 = "{")
    IN  IF c = "#" /\ next = "{" /\ m2.end # -1
        THEN PartLoop(sqlPart, m2.end + 1, <<>>,
                      Append(flushed, AddParamCall(builderName, TrimSpace(m2.content))),
                      builderName, smart)
        ELSE IF c = "$" /\ next = "{" /\ m2.end # -1
        THEN PartLoop(sqlPart, m2.end + 1, <<>>,
                      Append(flushed, AddTextCall(builderName, TrimSpace(m2.content))),
                      builderName, smart)
        ELSE IF c = "{" /\ (k = 0 \/ At(sqlPart, k - 1) \notin SigilPrefix) /\ m1.end # -1
        THEN PartLoop(sqlPart, m1.end + 1, <<>>,
                      AppendNonEmpty(flushed,
                          processCodeBlockExpressions(TrimSpace(m1.content), builderName, smart)),
                      builderName, smart)
        ELSE IF c = "@" /\ next = "@" /\ next2 = "{" /\ m3.end # -1
        THEN PartLoop(sqlPart, m3.end + 1, <<>>,
                      Append(flushed,
                          generateGoCodeForSQL(
                              parseSQLBlock(m3.content, "__double_at_query_" \o ToString(k), smart),
                              smart)),
                      builderName, smart)
        ELSE IF c = "@" /\ next = "{" /\ m2.end # -1
        THEN PartLoop(sqlPart, m2.end + 1, <<>>,
                      flushed \o SQLAndCalls(processSQLPartForParams(m2.content, builderName, smart),
                                             builderName),
                      builderName, smart)
        ELSE IF c = "@" /\ ~isBlockStart
        THEN PartAtLine(sqlPart, k, flushed, builderName, smart, LineEndFrom(sqlPart, k + 1),
                        trySmartScopeProcessing(smart, k,
                            Slice(sqlPart, k + 1, LineEndFrom(sqlPart, k + 1)),
                            From(sqlPart, k + 1), sqlPart))
        ELSE PartLoop(sqlPart, k + 1, Append(textBuf, c), calls, builderName, smart)

\* the loop of processSQLPartForParams at cursor k
PartLoop(sqlPart, k, textBuf, calls, builderName, smart) ==
    IF k >= Len(sqlPart) THEN FlushBuf(calls, textBuf, builderName)
    ELSE PartStep(sqlPart, k, textBuf, calls, builderName, smart,
                  FlushBuf(calls, textBuf, builderName),
                  findMatchingBrace(sqlPart, k + 1),
                  findMatchingBrace(sqlPart, k + 2),
                  findMatchingBrace(sqlPart, k + 3))

processSQLPartForParams(sqlPart, builderName, smart) ==
    [processedSQL |-> <<>>, calls |-> PartLoop(sqlPart, 0, <<>>, <<>>, builderName, smart)]

\* result[:start] + replacement + result[resume:]
Splice(result, start, replacement, resume) ==
    (Slice(result, 0, start) \o replacement) \o From(result, resume)

\* first sweep of processCodeBlockExpressions: the @@{ at start, matched by m
DoubleAtAt(result, start, m, builderName, smart) ==
    IF m.end = -1 THEN result
    ELSE SweepDoubleAt(
             Splice(result, start,
                    generateGoCodeForSQL(
                        parseSQLBlock(m.content, "__double_at_query_" \o ToString(start), smart),
                        smart),
                    m.end + 1),
             builderName, smart)

SweepDoubleAt(result, builderName, smart) ==
    LET start == Index(result, <<"@", "@", "{">>)
    IN  IF start = -1 THEN result
        ELSE DoubleAtAt(result, start, findMatchingBrace(result, start + 3), builderName, smart)

\* second sweep: the @{ at start, matched by m
AtBlockAt(result, start, m, builderName, smart) ==
    IF m.end = -1 THEN result
    ELSE SweepAtBlock(
             Splice(result, start,
                    Join(SQLAndCalls(processSQLPartForParams(m.content, builderName, smart),
                                     builderName),
                         Sep3),
                    m.end + 1),
             builderName, smart)

SweepAtBlock(result, builderName, smart) ==
    LET start == Index(result, <<"@", "{">>)
    IN  IF start = -1 THEN result
        ELSE AtBlockAt(result, start, findMatchingBrace(result, start + 2), builderName, smart)

\* result[:idx] + replacement + sep + result[resume:], searched on from the
\* end of the replacement
AtLineSplice(result, idx, replacement, sep, resume, builderName, smart) ==
    SweepAtLine(Splice(result, idx, replacement \o sep, resume),
                idx + Len(replacement), builderName, smart)

\* the default handling of the shorthand at idx, its text ending at atEnd
AtLineDefault(result, idx, bracePos, atEnd, lineForDefault, builderName, smart) ==
    IF lineForDefault # <<>>
    THEN AtLineSplice(result, idx,
             Join((<<AddTextCall(builderName, Quote(<<"\n">>))>>
                   \o SQLAndCalls(processSQLPartForParams(lineForDefault, builderName, smart),
                                  builderName))
                  \o (IF bracePos # -1 THEN <<AddTextCall(builderName, Quote(<<"\n">>))>>
                      ELSE <<>>),
                  Sep3),
             IF bracePos # -1 THEN Sep3 ELSE <<>>,
             atEnd, builderName, smart)
    ELSE SweepAtLine(result, IF bracePos # -1 THEN bracePos ELSE atEnd, builderName, smart)

\* the shorthand at idx once its line end, its brace and the smart-scope
\* verdict are known
AtLineBody(result, idx, lineEnd, bracePos, atEnd, smartResult, builderName, smart) ==
    IF smartResult.ShouldHandle
    THEN AtLineSplice(result, idx,
             Join(<<AddTextCall(builderName, Quote(<<"\n">>))>>
                  \o processSmartScopeContent(smartResult.BlockContent, builderName, smart),
                  Sep3),
             <<>>, smartResult.LineEndPos, builderName, smart)
    ELSE AtLineDefault(result, idx, bracePos, atEnd, TrimSpace(Slice(result, idx + 1, atEnd)),
                       builderName, smart)

AtLineBrace(result, idx, lineEnd, bracePos, builderName, smart) ==
    AtLineBody(result, idx, lineEnd, bracePos,
               IF bracePos # -1 THEN TrimBlanksBack(result, bracePos, idx + 1) ELSE lineEnd,
               trySmartScopeProcessing(smart, idx, Slice(result, idx + 1, lineEnd),
                                       From(result, idx + 1), result),
               builderName, smart)

AtLineAt(result, idx, lineEnd, builderName, smart) ==
    IF idx + 2 < Len(result) /\ At(result, idx + 1) = "@" /\ At(result, idx + 2) = "{"
    THEN SweepAtLine(result, idx + 3, builderName, smart)
    ELSE IF idx + 1 < Len(result) /\ At(result, idx + 1) = "{"
    THEN SweepAtLine(result, idx + 2, builderName, smart)
    ELSE AtLineBrace(result, idx, lineEnd, OriginalBracePos(result, idx, lineEnd),
                     builderName, smart)

\* third sweep: every @xxx shorthand, searched from searchStart
SweepAtLine(result, searchStart, builderName, smart) ==
    LET rel == Index(From(result, searchStart), <<"@">>)
    IN  IF rel = -1 THEN result
        ELSE AtLineAt(result, rel + searchStart, LineEndFrom(result, rel + searchStart),
                      builderName, smart)

\* fourth sweep: every remaining #{...}
SweepParam(result, builderName) ==
    LET start == Index(result, <<"#", "{">>)
        r == NaiveBraceLoop(result, start + 2, 1)
        paramExpr == TrimSpace(Slice(result, start + 2, r.end - 1))
    IN  IF start = -1 THEN result
        ELSE IF r.braceCount # 0 THEN result
        ELSE SweepParam((Slice(result, 0, start) \o AddParamCall(builderName, paramExpr))
                            \o From(result, r.end),
                        builderName)

\* fifth sweep: every remaining ${...}
SweepTextExpr(result, builderName) ==
    LET start == Index(result, <<"$", "{">>)
        r == NaiveBraceLoop(result, start + 2, 1)
        varExpr == TrimSpace(Slice(result, start + 2, r.end - 1))
    IN  IF start = -1 THEN result
        ELSE IF r.braceCount # 0 THEN result
        ELSE SweepTextExpr((Slice(result, 0, start) \o AddTextCall(builderName, varExpr))
                               \o From(result, r.end),
                           builderName)

processCodeBlockExpressions(codeContent, builderName, smart) ==
    SweepTextExpr(
        SweepParam(
            SweepAtLine(
                SweepAtBlock(SweepDoubleAt(codeContent, builderName, smart), builderName, smart),
                0, builderName, smart),
            builderName),
        builderName)

RECURSIVE SkipBlanks(_, _)
SkipBlanks(content, k) ==
    IF k < Len(content) /\ IsSpace(At(content, k)) THEN SkipBlanks(content, k + 1) ELSE k

RECURSIVE TextRunEnd(_, _)
TextRunEnd(content, k) ==
    IF k < Len(content) /\ At(content, k) \notin {"{", "#", "$", "@"}
    THEN TextRunEnd(content, k + 1)
    ELSE k

\* the outcome of a loop that never ends, written where its result would be
Hang == <<"<hang>">>

\* the plain-text branch of processSmartScopeContent: the run k..textEnd.  At
\* a special character that no branch took the run is empty, the cursor does
\* not move and the loop of processSmartScopeContent repeats for ever.
SmartText(content, k, acc, textEnd, sqlText, builderName, smart) ==
    IF textEnd = k THEN Append(acc, Hang)
    ELSE SmartLoop(content, textEnd,
                   IF sqlText # <<>>
                   THEN Append(acc, AddTextCall(builderName, Quote(sqlText)))
                   ELSE acc,
                   builderName, smart)

\* one iteration of processSmartScopeContent at the non-blank cursor k
SmartStep(content, k, acc, builderName, smart, m1, m2, m3, textEnd) ==
    LET n == Len(content)
        c == At(content, k)
        next == IF k + 1 < n THEN At(content, k + 1) ELSE ""
        next2 == IF k + 2 < n THEN At(content, k + 2) ELSE ""
    IN  IF c = "#" /\ next = "{" /\ m2.end # -1
        THEN SmartLoop(content, m2.end + 1,
                       Append(acc, AddParamCall(builderName, TrimSpace(m2.content))),
                       builderName, smart)
        ELSE IF c = "$" /\ next = "{" /\ m2.end # -1
        THEN SmartLoop(content, m2.end + 1,
                       Append(acc, AddTextCall(builderName, TrimSpace(m2.content))),
                       builderName, smart)
        ELSE IF c = "@" /\ next = "@" /\ next2 = "{" /\ m3.end # -1
        THEN SmartLoop(content, m3.end + 1,
                       Append(acc,
                           generateGoCodeForSQL(
                               parseSQLBlock(m3.content, "__double_at_query_" \o ToString(k), smart),
                               smart)),
                       builderName, smart)
        ELSE IF c = "@" /\ next = "{" /\ m2.end # -1
        THEN SmartLoop(content, m2.end + 1,
                       acc \o SQLAndCalls(processSQLPartForParams(m2.content, builderName, smart),
                                          builderName),
                       builderName, smart)
        ELSE IF c = "{" /\ (k = 0 \/ At(content, k - 1) \notin SigilPrefix) /\ m1.end # -1
        THEN SmartLoop(content, m1.end + 1,
                       AppendNonEmpty(acc,
                           processCodeBlockExpressions(m1.content, builderName, smart)),
                       builderName, smart)
        ELSE SmartText(content, k, acc, textEnd, TrimSpace(Slice(content, k, textEnd)),
                       builderName, smart)

SmartAt(content, k, acc, builderName, smart) ==
    IF k >= Len(content) THEN acc
    ELSE SmartStep(content, k, acc, builderName, smart,
                   findMatchingBrace(content, k + 1),
                   findMatchingBrace(content, k + 2),
                   findMatchingBrace(content, k + 3),
                   TextRunEnd(content, k))

\* the loop of processSmartScopeContent at cursor k0
SmartLoop(content, k0, acc, builderName, smart) ==
    IF k0 >= Len(content) THEN acc
    ELSE SmartAt(content, SkipBlanks(content, k0), acc, builderName, smart)

processSmartScopeContent(content, builderName, smart) ==
    SmartLoop(content, 0, <<>>, builderName, smart)

\* the statements generateGoCodeForSQL emits for one node
NodeParts(n, builderName, smart) ==
    CASE n.Kind = SQLText -> TextParts(n.Content, builderName)
      [] n.Kind = SQLExprText ->
            IF n.Expr.ok THEN <<AddTextCall(builderName, n.Expr.str)>>
            ELSE <<processCodeBlockExpressions(TrimSpace(n.Content), builderName, smart)>>
      [] n.Kind = SQLExprAtText ->
            IF smart
            THEN processSmartScopeContent(TrimSpace(n.Content), builderName, smart)
            ELSE SQLAndCalls(processSQLPartForParams(TrimSpace(n.Content), builderName, smart),
                             builderName)
      [] n.Kind = SQLExprParam ->
            IF n.Expr.ok THEN <<AddParamCall(builderName, n.Expr.str)>>
            ELSE <<ParamWrapper(TrimSpace(n.Content), builderName)>>
      [] n.Kind = SQLExprDoubleAtQuery -> <<>>
      [] n.Kind = SQLExprCode ->
            <<processCodeBlockExpressions(TrimSpace(n.Content), builderName, smart)>>

NodeListParts(nodes, k, builderName, smart) ==
    IF k > Len(nodes) THEN <<>>
    ELSE NodeParts(nodes[k], builderName, smart) \o NodeListParts(nodes, k + 1, builderName, smart)

\* the list "parts" of generateGoCodeForSQL
GenParts(block, smart) ==
    (<<NewBuilderStmt(block.VarName)>>
     \o NodeListParts(block.Content, 1, BuilderOf(block.VarName), smart))
    \o <<BuildStmt(block.VarName)>>

generateGoCodeForSQL(block, smart) ==
    (((<<"func", "(", ")", "(", "__result", " ", "gox.Query", ")", " ", "{">> \o Sep2)
      \o Join(GenParts(block, smart), Sep2))
     \o <<"\n", "\t", "\t", "return", " ", block.VarName, "\n", "\t", "}", "(", ")">>)

-----------------------------------------------------------------------------
(* The run-time QueryBuilder (compiler/compile.go).                        *)

\* A run-time value: its dynamic kind ("string", "query", "slice", "nil" or
\* "scalar"), its text (a string's characters, a Query's sql, the %v
\* formatting of a scalar) and its elements (a slice's elements, a Query's args)
Value(kind, s, elems) == [kind |-> kind, s |-> s, elems |-> elems]

NewQueryBuilder == [parts |-> <<>>, args |-> <<>>, panicked |-> FALSE]

\* mutant: the text of a Query is added and its arguments are left out
AddTextSqlOnly(b, text) ==
    CASE text.kind = "nil" -> b
      [] OTHER             -> [b EXCEPT !.parts = @ \o text.s]

AddText(b, text) ==
    CASE text.kind = "string" -> [b EXCEPT !.parts = @ \o text.s]
      [] text.kind = "query"  -> [b EXCEPT !.parts = @ \o text.s, !.args = @ \o text.elems]
      [] text.kind = "nil"    -> b
      [] OTHER                -> [b EXCEPT !.parts = @ \o text.s]

\* n question marks separated by commas
RECURSIVE Placeholders(_)
Placeholders(n) ==
    IF n = 0 THEN <<>> ELSE IF n = 1 THEN <<"?">> ELSE <<"?", ",">> \o Placeholders(n - 1)

\* mutant: the argument is put in front of the earlier ones
AddParamInFront(b, arg) ==
    [b EXCEPT !.parts = @ \o <<"?">>, !.args = <<arg>> \o @]

AddParam(b, arg) ==
    IF arg.kind = "nil" THEN [b EXCEPT !.panicked = TRUE]
    ELSE IF arg.kind = "slice"
    THEN [b EXCEPT !.parts = @ \o Placeholders(Len(arg.elems)), !.args = @ \o arg.elems]
    ELSE [b EXCEPT !.parts = @ \o <<"?">>, !.args = Append(@, arg)]

Build(b) == [sql |-> b.parts, args |-> b.args]

\* a slice of interface values: the backing array it points into (0 when it
\* has none), its length and its capacity; "make([]interface{}, 0)"
NilSlice == [arr |-> 0, len |-> 0, cap |-> 0]

\* the elements a slice shows, h being the backing arrays
Elements(h, sl) == IF sl.len = 0 THEN <<>> ELSE SubSeq(h[sl.arr], 1, sl.len)

\* the capacity append gives the new array when a slice of capacity old has to
\* hold need elements (the rule of the Go runtime for fewer than 256 elements)
GrowCap(old, need) == IF need > 2 * old THEN need ELSE 2 * old

\* a new array of cap cells that starts with elems
Cells(elems, cap) == elems \o [k \in 1..(cap - Len(elems)) |-> Value("nil", <<>>, <<>>)]

\* "append(sl, elems...)": within the capacity the elements are written into
\* the array the slice points into, beyond it into a new array
AppendSlice(h, sl, elems) ==
    IF elems = <<>> THEN [heap |-> h, slice |-> sl]
    ELSE IF sl.len + Len(elems) <= sl.cap
    THEN [heap  |-> [h EXCEPT ![sl.arr] = (SubSeq(@, 1, sl.len) \o elems)
                                           \o SubSeq(@, sl.len + Len(elems) + 1, sl.cap)],
          slice |-> [sl EXCEPT !.len = @ + Len(elems)]]
    ELSE [heap  |-> Append(h, Cells(Elements(h, sl) \o elems,
                                    GrowCap(sl.cap, sl.len + Len(elems)))),
          slice |-> [arr |-> Len(h) + 1, len |-> sl.len + Len(elems),
                     cap |-> GrowCap(sl.cap, sl.len + Len(elems))]]

-----------------------------------------------------------------------------
(* Execution of the statements generateGoCodeForSQL emits.                 *)

\* the Go string literal lit read back as its value
RECURSIVE Unescape(_)
Unescape(e) ==
    IF e = <<>> THEN <<>>
    ELSE IF Head(e) = "\\" /\ Len(e) >= 2
    THEN LET c == e[2]
             v == IF c = "n" THEN "\n" ELSE IF c = "t" THEN "\t" ELSE IF c = "r" THEN "\r" ELSE c
         IN  <<v>> \o Unescape(SubSeq(e, 3, Len(e)))
    ELSE <<Head(e)>> \o Unescape(Tail(e))

\* arg is one Go string literal: quotes at both ends, every inner quote escaped
RECURSIVE NoBareQuote(_)
NoBareQuote(e) ==
    IF e = <<>> THEN TRUE
    ELSE IF Head(e) = "\\" THEN Len(e) >= 2 /\ NoBareQuote(SubSeq(e, 3, Len(e)))
    ELSE Head(e) # "\"" /\ NoBareQuote(Tail(e))

IsStringLit(arg) ==
    /\ Len(arg) >= 2
    /\ arg[1] = "\""
    /\ arg[Len(arg)] = "\""
    /\ NoBareQuote(SubSeq(arg, 2, Len(arg) - 1))

Unquote(arg) == Unescape(SubSeq(arg, 2, Len(arg) - 1))

IsIdentExpr(arg) == arg # <<>> /\ \A k \in 1..Len(arg) : EndsIdent(arg[k])

\* the run-time value of an argument: a literal's string, or the value the
\* host program binds to the identifier (y is a string, every other
\* identifier a scalar; the identifier stands for its value)
ArgValue(arg) ==
    IF IsStringLit(arg) THEN Value("string", Unquote(arg), <<>>)
    ELSE IF arg = <<"y">> THEN Value("string", arg, <<>>)
    ELSE Value("scalar", arg, <<>>)

\* stmt is builderName.method(arg) with an argument the model evaluates
IsCall(stmt, builderName, method) ==
    /\ Len(stmt) >= 5
    /\ stmt[1] = builderName
    /\ stmt[2] = method
    /\ stmt[3] = "("
    /\ stmt[Len(stmt)] = ")"
    /\ LET arg == SubSeq(stmt, 4, Len(stmt) - 1) IN IsStringLit(arg) \/ IsIdentExpr(arg)

CallArg(stmt) == SubSeq(stmt, 4, Len(stmt) - 1)

-----------------------------------------------------------------------------
(* The call finder (findSQLBlocks) of the host source.                     *)

GoxSqlPrefix == <<"g", "o", "x", ".", "S", "q", "l", "(">>
RuntimeQueryPrefix ==
    <<"r", "u", "n", "t", "i", "m", "e", ".", "Q", "u", "e", "r", "y", "(">>

\* funcLen after the prefix test at i; 0 when isQueryCall stays false.  The
\* second test compares a slice of 15 characters with the 14 of its literal.
funcLen(content, k) ==
    IF k + 8 <= Len(content) /\ Slice(content, k, k + 8) = GoxSqlPrefix THEN 8
    ELSE IF k + 15 <= Len(content) /\ Slice(content, k, k + 15) = RuntimeQueryPrefix THEN 15
    ELSE 0

\* the blank-skipping loops of findSQLBlocks (space, tab, newline)
RECURSIVE SkipCallBlanks(_, _)
SkipCallBlanks(content, j) ==
    IF j < Len(content) /\ At(content, j) \in {" ", "\t", "\n"}
    THEN SkipCallBlanks(content, j + 1)
    ELSE j

RECURSIVE findMatchingQuote(_, _, _, _)
findMatchingQuote(content, start, quoteChar, isRawString) ==
    IF start >= Len(content) THEN -1
    ELSE IF At(content, start) = quoteChar THEN start
    ELSE IF ~isRawString /\ At(content, start) = "\\" /\ start + 1 < Len(content)
    THEN findMatchingQuote(content, start + 2, quoteChar, isRawString)
    ELSE findMatchingQuote(content, start + 1, quoteChar, isRawString)

\* "for commentStart < len(content) && content[commentStart] == '*'"
RECURSIVE SkipStars(_, _)
SkipStars(content, k) ==
    IF k < Len(content) /\ At(content, k) = "*" THEN SkipStars(content, k + 1) ELSE k

\* the search for the closing */ from k
RECURSIVE CommentEnd(_, _)
CommentEnd(content, k) ==
    IF k < Len(content) - 1 /\ ~(At(content, k) = "*" /\ At(content, k + 1) = "/")
    THEN CommentEnd(content, k + 1)
    ELSE k

SQLBlockInfo(start, end, sqlContent) == [Start |-> start, End |-> end, Content |-> sqlContent]

\* the close-parenthesis test shared by both literal forms: the block when a
\* ")" follows position after, the retry from j + 1 otherwise
CloseCall(content, k, j, sqlContent, after) ==
    LET closeParenPos == SkipCallBlanks(content, after)
    IN  IF closeParenPos >= Len(content) \/ At(content, closeParenPos) # ")"
        THEN [found |-> FALSE, next |-> j + 1]
        ELSE [found |-> TRUE, next |-> closeParenPos + 1,
              block |-> SQLBlockInfo(k, closeParenPos + 1, sqlContent)]

\* case 1: the literal opened by the quote at j
QuoteCall(content, k, j) ==
    LET sqlEnd == findMatchingQuote(content, j + 1, At(content, j), At(content, j) = BackQuote)
    IN  IF sqlEnd = -1 THEN [found |-> FALSE, next |-> j + 1]
        ELSE CloseCall(content, k, j, Slice(content, j + 1, sqlEnd), sqlEnd + 1)

\* case 2: the comment opened at j
CommentCall(content, k, j) ==
    LET commentStart == SkipStars(content, j + 2)
        commentEnd == CommentEnd(content, commentStart)
    IN  IF commentEnd >= Len(content) - 1 THEN [found |-> FALSE, next |-> j + 1]
        ELSE CloseCall(content, k, j, Slice(content, commentStart, commentEnd), commentEnd + 2)

\* which branch one iteration of the loop of findSQLBlocks takes at k
FindBranch(content, k) ==
    LET j == SkipCallBlanks(content, k + funcLen(content, k))
    IN  IF At(content, k) = "\"" THEN "string"
        ELSE IF funcLen(content, k) = 0 THEN "char"
        ELSE IF j >= Len(content) THEN "nobody"
        ELSE IF At(content, j) \in {BackQuote, "'"}
        THEN IF QuoteCall(content, k, j).found THEN "quote" ELSE "retry"
        ELSE IF At(content, j) = "/" /\ j + 1 < Len(content) /\ At(content, j + 1) = "*"
        THEN IF CommentCall(content, k, j).found THEN "comment" ELSE "retry"
        ELSE "other"

\* one iteration of the loop of findSQLBlocks
FindStep(content, st) ==
    LET k == st.i
        br == FindBranch(content, k)
        j == SkipCallBlanks(content, k + funcLen(content, k))
        call == IF br \in {"quote", "retry"} /\ At(content, j) \in {BackQuote, "'"}
                THEN QuoteCall(content, k, j)
                ELSE CommentCall(content, k, j)
    IN  CASE br = "string" -> [st EXCEPT !.i = skipStringLiteral(content, k, "\"")]
          [] br \in {"char", "nobody"} -> [st EXCEPT !.i = k + 1]
          [] br = "other" -> [st EXCEPT !.i = k + 5]
          [] br = "retry" -> [st EXCEPT !.i = call.next]
          [] br \in {"quote", "comment"} ->
                [i |-> call.next, blocks |-> Append(st.blocks, call.block)]

RECURSIVE FindLoop(_, _)
FindLoop(content, st) ==
    IF st.i < Len(content) THEN FindLoop(content, FindStep(content, st)) ELSE st.blocks

findSQLBlocks(content) == FindLoop(content, [i |-> 0, blocks |-> <<>>])

-----------------------------------------------------------------------------
(* The template pipeline: parseSQLBlock, generateGoCodeForSQL and the run  *)
(* of the generated statements, for one template body.                     *)

TopVarName == "__gox_sql_0"
TopBuilder == BuilderOf(TopVarName)

\* the fragments template bodies are built from
Fragments ==
    { <<"a">>, <<" ">>, <<"\n">>, <<"-", "-">>,
      <<"#", "{", "x", "}">>, <<"#", "{", "z", "}">>, <<"$", "{", "y", "}">>,
      <<"#", "{">>, <<"{">>, <<"}">>, <<"@", "b">>, <<"@", "{">>,
      <<"@", "@", "{", "a", "@", "}">> }

Bodies == {Flatten(fs) : fs \in UNION {[1..n -> Fragments] : n \in 0..MaxFrags}}

NoQuery == [sql |-> <<>>, args |-> <<>>]

FindIdle ==
    /\ src = <<>>
    /\ fi = 0
    /\ blocks = <<>>
    /\ fpc = "idle"

\* no file is being processed
FileIdle ==
    /\ fileContent = <<>>
    /\ nfiles = 0

\* no call has been made on a builder
NoCall == [op |-> "none", arg |-> Value("nil", <<>>, <<>>), before |-> NewQueryBuilder, n |-> 0]

BuilderIdle == lastCall = NoCall /\ callLog = <<>>

\* no Compiler has been made
DriverIdle ==
    /\ opts = <<>>
    /\ bad = {}
    /\ fsys = <<>>
    /\ clock = 0
    /\ dpc = "none"
    /\ tasks = <<>>
    /\ runs = 0
    /\ prev = <<>>
    /\ removed = {}
    /\ fs0 = <<>>

ScanIdle ==
    /\ ctlLine = <<>>
    /\ ctlParen = -2

RewriteIdle ==
    /\ processed = <<>>
    /\ ri = -1

HostIdle ==
    /\ heap = <<>>
    /\ btext = <<>>
    /\ bargs = NilSlice
    /\ held = <<>>
    /\ kept = <<>>
    /\ nops = 0

WalkIdle ==
    /\ walkLeft = <<>>
    /\ started = <<>>

ImportsIdle ==
    /\ genCode = <<>>
    /\ impBlock = <<>>
    /\ outLines = <<>>
    /\ gpc = "idle"

Init ==
    /\ body \in Bodies
    /\ smartScopeMode = FALSE
    /\ pc = "tokenize"
    /\ i = 0
    /\ textStart = 0
    /\ tokens = <<>>
    /\ parts = <<>>
    /\ ip = 1
    /\ qb = NewQueryBuilder
    /\ query = NoQuery
    /\ FindIdle
    /\ FileIdle
    /\ BuilderIdle
    /\ DriverIdle
    /\ ScanIdle
    /\ RewriteIdle
    /\ HostIdle
    /\ WalkIdle
    /\ ImportsIdle

TokState == [i |-> i, textStart |-> textStart, tokens |-> tokens]

\* the tokenizer loop is at an iteration that takes branch br
TokAt(br) ==
    /\ pc = "tokenize"
    /\ i < Len(body)
    /\ TokBranch(body, i) = br

\* one iteration of the tokenizer loop
TokIterate ==
    /\ LET st == TokStep(body, smartScopeMode, TokState)
       IN  /\ i' = st.i
           /\ textStart' = st.textStart
           /\ tokens' = st.tokens
    /\ UNCHANGED <<body, smartScopeMode, pc, parts, ip, qb, query>>
    /\ UNCHANGED offTpl

TokParam ==
    /\ TokAt("param")
    /\ TokIterate

TokTextExpr ==
    /\ TokAt("textexpr")
    /\ TokIterate

TokDoubleAt ==
    /\ TokAt("doubleat")
    /\ TokIterate

TokAtBlock ==
    /\ TokAt("atblock")
    /\ TokIterate

TokAtLine ==
    /\ TokAt("atline")
    /\ TokIterate

TokCodeBlock ==
    /\ TokAt("code")
    /\ TokIterate

TokChar ==
    /\ TokAt("char")
    /\ TokIterate

\* the loop ends: the last text is flushed
TokEnd ==
    /\ pc = "tokenize"
    /\ i >= Len(body)
    /\ tokens' = TokFinish(body, TokState)
    /\ pc' = "tokenized"
    /\ UNCHANGED <<body, smartScopeMode, i, textStart, parts, ip, qb, query>>
    /\ UNCHANGED offTpl

\* some loop of the emitter never ended while these statements were produced
Hangs(stmts) == \E k \in 1..Len(stmts) : \E j \in 1..Len(stmts[k]) : stmts[k][j] = Hang[1]

\* tokensToNodes, the return of parseSQLBlock, "if err != nil" in
\* preprocessFile (the error return), and generateGoCodeForSQL
Generate ==
    /\ pc = "tokenized"
    /\ IF ParseErr(body, TopVarName, smartScopeMode) # NoError
       THEN /\ pc' = "failed"
            /\ parts' = parts
       ELSE /\ parts' = GenParts([Content |-> tokensToNodes(tokens), VarName |-> TopVarName],
                                 smartScopeMode)
            /\ pc' = IF Hangs(parts') THEN "hang" ELSE "run"
    /\ UNCHANGED <<body, smartScopeMode, i, textStart, tokens, ip, qb, query>>
    /\ UNCHANGED offTpl

ExecNewBuilder ==
    /\ pc = "run"
    /\ parts[ip] = NewBuilderStmt(TopVarName)
    /\ qb' = NewQueryBuilder
    /\ ip' = ip + 1
    /\ UNCHANGED <<body, smartScopeMode, pc, i, textStart, tokens, parts, query>>
    /\ UNCHANGED offTpl

ExecAddText ==
    /\ pc = "run"
    /\ IsCall(parts[ip], TopBuilder, ".AddText")
    /\ qb' = AddText(qb, ArgValue(CallArg(parts[ip])))
    /\ ip' = ip + 1
    /\ UNCHANGED <<body, smartScopeMode, pc, i, textStart, tokens, parts, query>>
    /\ UNCHANGED offTpl

ExecAddParam ==
    /\ pc = "run"
    /\ IsCall(parts[ip], TopBuilder, ".AddParam")
    /\ qb' = AddParam(qb, ArgValue(CallArg(parts[ip])))
    /\ ip' = ip + 1
    /\ UNCHANGED <<body, smartScopeMode, pc, i, textStart, tokens, parts, query>>
    /\ UNCHANGED offTpl

ExecBuild ==
    /\ pc = "run"
    /\ parts[ip] = BuildStmt(TopVarName)
    /\ query' = Build(qb)
    /\ pc' = "done"
    /\ UNCHANGED <<body, smartScopeMode, i, textStart, tokens, parts, ip, qb>>
    /\ UNCHANGED offTpl

\* the statement is host code of a code block or a wrapper: Go runs it, the
\* model does not follow it
ExecHostCode ==
    /\ pc = "run"
    /\ parts[ip] # NewBuilderStmt(TopVarName)
    /\ parts[ip] # BuildStmt(TopVarName)
    /\ ~IsCall(parts[ip], TopBuilder, ".AddText")
    /\ ~IsCall(parts[ip], TopBuilder, ".AddParam")
    /\ pc' = "hostcode"
    /\ UNCHANGED <<body, smartScopeMode, i, textStart, tokens, parts, ip, qb, query>>
    /\ UNCHANGED offTpl

Next ==
    \/ TokParam
    \/ TokTextExpr
    \/ TokDoubleAt
    \/ TokAtBlock
    \/ TokAtLine
    \/ TokCodeBlock
    \/ TokChar
    \/ TokEnd
    \/ Generate
    \/ ExecNewBuilder
    \/ ExecAddText
    \/ ExecAddParam
    \/ ExecBuild
    \/ ExecHostCode

Spec == Init /\ [][Next]_vars

-----------------------------------------------------------------------------
(* The call finder run on a host source.                                   *)

SrcFragments ==
    { GoxSqlPrefix, RuntimeQueryPrefix,
      <<BackQuote, "a", BackQuote>>,
      <<"'", "a", "\\", "'", "b", "'">>,
      <<"/", "*", "a", "*", "/">>,
      <<"/", "*", "*", "/">>,
      <<"/", "*", "*", "/", "a", "*", "/">>,
      <<")">>, <<" ">>, <<"\"">>, <<BackQuote>>,
      GoxSqlPrefix \o <<"'", "a", "'", ")">> }

Sources == {Flatten(fs) : fs \in UNION {[1..n -> SrcFragments] : n \in 0..MaxSrcFrags}}

TplIdle ==
    /\ body = <<>>
    /\ smartScopeMode = FALSE
    /\ pc = "idle"
    /\ i = 0
    /\ textStart = 0
    /\ tokens = <<>>
    /\ parts = <<>>
    /\ ip = 1
    /\ qb = NewQueryBuilder
    /\ query = NoQuery

FindInit ==
    /\ src \in Sources
    /\ fi = 0
    /\ blocks = <<>>
    /\ fpc = "scan"
    /\ TplIdle
    /\ FileIdle
    /\ BuilderIdle
    /\ DriverIdle
    /\ ScanIdle
    /\ RewriteIdle
    /\ HostIdle
    /\ WalkIdle
    /\ ImportsIdle

\* the loop of findSQLBlocks is at an iteration that takes branch br
FindAt(br) ==
    /\ fpc = "scan"
    /\ fi < Len(src)
    /\ FindBranch(src, fi) = br

\* one iteration of the loop of findSQLBlocks
FindIterate ==
    /\ LET st == FindStep(src, [i |-> fi, blocks |-> blocks])
       IN  /\ fi' = st.i
           /\ blocks' = st.blocks
    /\ UNCHANGED <<src, fpc>>
    /\ UNCHANGED offFind

FindString ==
    /\ FindAt("string")
    /\ FindIterate

FindChar ==
    /\ FindAt("char")
    /\ FindIterate

FindNoBody ==
    /\ FindAt("nobody")
    /\ FindIterate

FindOther ==
    /\ FindAt("other")
    /\ FindIterate

FindRetry ==
    /\ FindAt("retry")
    /\ FindIterate

FindQuote ==
    /\ FindAt("quote")
    /\ FindIterate

FindComment ==
    /\ FindAt("comment")
    /\ FindIterate

\* the loop ends: the blocks are returned
FindEnd ==
    /\ fpc = "scan"
    /\ fi >= Len(src)
    /\ fpc' = "done"
    /\ UNCHANGED <<src, fi, blocks>>
    /\ UNCHANGED offFind

SmartScopeMarker == <<"gox:smart_scope">>

\* strings.Contains
Contains(s, sub) == Index(s, sub) # -1

\* mutant: the mode, once set by a file, stays set for the files after it
DetectSmartScopeSticky(current, content) == current \/ Contains(content, SmartScopeMarker)

\* "p.smartScopeMode = strings.Contains(content, "gox:smart_scope")": the
\* field's new value, given its current one and the text of the file
DetectSmartScope(current, content) == Contains(content, SmartScopeMarker)

\* mutant: the text after the call site is resumed one character late
ReplaceCallLate(content, info, replacement) ==
    (Slice(content, 0, info.Start) \o replacement) \o From(content, info.End + 1)

\* "content = content[:info.Start] + replacement + content[info.End:]"
ReplaceCall(content, info, replacement) ==
    (Slice(content, 0, info.Start) \o replacement) \o From(content, info.End)

\* "varName := fmt.Sprintf("__gox_sql_%d", sqlCounter)"
SqlVarName(sqlCounter) == "__gox_sql_" \o ToString(sqlCounter)

\* the code that replaces the call site info, the sqlCounter-th one replaced
Replacement(info, sqlCounter, smart) ==
    generateGoCodeForSQL(parseSQLBlock(info.Content, SqlVarName(sqlCounter), smart), smart)

\* preprocessFile has the call sites: the loop over them begins at the last
ReplaceBegin ==
    /\ fpc = "done"
    /\ ri = -1
    /\ processed' = src
    /\ ri' = Len(blocks)
    /\ UNCHANGED offRewrite

\* one iteration of the loop: the call site ri is replaced, or the error of
\* parseSQLBlock is returned
ReplaceBlock ==
    /\ fpc = "done"
    /\ ri >= 1
    /\ IF ParseErr(blocks[ri].Content, SqlVarName(Len(blocks) - ri),
                   DetectSmartScope(smartScopeMode, src)) # NoError
       THEN /\ fpc' = "failed"
            /\ UNCHANGED <<processed, ri>>
       ELSE /\ processed' = ReplaceCall(processed, blocks[ri],
                                        Replacement(blocks[ri], Len(blocks) - ri,
                                                    DetectSmartScope(smartScopeMode, src)))
            /\ ri' = ri - 1
            /\ fpc' = fpc
    /\ UNCHANGED <<src, fi, blocks>>
    /\ UNCHANGED offFindRewrite

\* "return []byte(content), sqlBlocks, nil"
ReplaceReturn ==
    /\ fpc = "done"
    /\ ri = 0
    /\ fpc' = "returned"
    /\ UNCHANGED <<src, fi, blocks>>
    /\ UNCHANGED offFind

FindNext ==
    \/ FindString
    \/ FindChar
    \/ FindNoBody
    \/ FindOther
    \/ FindRetry
    \/ FindQuote
    \/ FindComment
    \/ FindEnd
    \/ ReplaceBegin
    \/ ReplaceBlock
    \/ ReplaceReturn

FindSpec == FindInit /\ [][FindNext]_vars

-----------------------------------------------------------------------------
(* One Parser handed files one after another: ParseFile, preprocessFile.   *)

\* number of fragments the template body of a file is built from
MaxFileFrags == 3
\* number of files one Parser is handed
MaxFiles == 2

\* the code of a CodeBlock with its nested calls expanded, from the last
\* block found to the first (no function of the source calls it)
RECURSIVE ReplaceNested(_, _, _, _)
ReplaceNested(result, nestedBlocks, k, sqlCount) ==
    IF k < 1 THEN result
    ELSE ReplaceNested(
             Splice(result, nestedBlocks[k].Start,
                    generateGoCodeForSQL(
                        parseSQLBlock(nestedBlocks[k].Content,
                                      "__nested_sql_" \o ToString(sqlCount), FALSE),
                        FALSE),
                    nestedBlocks[k].End),
             nestedBlocks, k - 1, sqlCount + 1)

preprocessNestedSQL(content) ==
    ReplaceNested(content, findSQLBlocks(content), Len(findSQLBlocks(content)), 0)

\* the fragments the template bodies of the files are built from
FileFragments ==
    { <<"@", "b", " ", "(">>, <<"\n", ")">>, <<")">>, <<"{">>, <<"{", "a", "}">>,
      <<"#", "{", "x", "}">>, <<"$", "{", "y", "}">>, <<"@", "@", "{", "a", "}">>,
      <<"@", "{">>,
      <<"{">> \o GoxSqlPrefix \o <<"'", "a", "'", ")", "}">>,
      <<"{", "#", "{", "f", "(", "\"", "}", "\"", ")", "}", "}">> }

FileBodies == {Flatten(fs) : fs \in UNION {[1..n -> FileFragments] : n \in 0..MaxFileFrags}}

MarkerLine == <<"/", "/", " ">> \o SmartScopeMarker \o <<"\n">>

\* a host file: with or without the marker comment, with one call whose
\* template body is a raw string, or with no call
Files ==
    {h \o ((GoxSqlPrefix \o <<BackQuote>>) \o (b \o <<BackQuote, ")">>)) :
        h \in {<<>>, MarkerLine}, b \in FileBodies}
    \cup {<<>>, MarkerLine}

\* the state after NewParser
ParserInit ==
    /\ TplIdle
    /\ FindIdle
    /\ FileIdle
    /\ BuilderIdle
    /\ DriverIdle
    /\ ScanIdle
    /\ RewriteIdle
    /\ HostIdle
    /\ WalkIdle
    /\ ImportsIdle

\* preprocessFile on content, up to the call of parseSQLBlock for the last
\* call site found (the one rewritten first); with no call site it returns
PreprocessOn(f, found) ==
    /\ smartScopeMode' = DetectSmartScope(smartScopeMode, f)
    /\ nfiles' = nfiles + 1
    /\ IF found = <<>>
       THEN /\ fileContent' = <<>>
            /\ body' = <<>>
            /\ pc' = "idle"
       ELSE /\ fileContent' = f
            /\ body' = found[Len(found)].Content
            /\ pc' = "tokenize"
    /\ i' = 0
    /\ textStart' = 0
    /\ tokens' = <<>>
    /\ parts' = <<>>
    /\ UNCHANGED <<ip, qb, query>>
    /\ UNCHANGED offParser

\* ParseFile is called with the next file
PreprocessFile ==
    /\ pc = "idle"
    /\ fpc = "idle"
    /\ nfiles < MaxFiles
    /\ \E f \in Files : PreprocessOn(f, findSQLBlocks(f))

\* the call site is replaced by the generated code and ParseFile returns: of
\* the Parser's state only the smartScopeMode field outlives the call
ReturnFile ==
    /\ pc = "run"
    /\ fileContent # <<>>
    /\ pc' = "idle"
    /\ fileContent' = <<>>
    /\ body' = <<>>
    /\ i' = 0
    /\ textStart' = 0
    /\ tokens' = <<>>
    /\ parts' = <<>>
    /\ UNCHANGED <<smartScopeMode, ip, qb, query, nfiles>>
    /\ UNCHANGED offParser

ParserNext ==
    \/ PreprocessFile
    \/ TokParam
    \/ TokTextExpr
    \/ TokDoubleAt
    \/ TokAtBlock
    \/ TokAtLine
    \/ TokCodeBlock
    \/ TokChar
    \/ TokEnd
    \/ Generate
    \/ ReturnFile

ParserSpec == ParserInit /\ [][ParserNext]_vars

-----------------------------------------------------------------------------
(* A host program calling a QueryBuilder (compiler/compile.go).            *)

\* number of AddText and AddParam calls made on one builder
MaxCalls == 3

NilValue == Value("nil", <<>>, <<>>)

\* the values that are not slices: strings, scalars, Queries (the last one
\* with a placeholder and no argument) and the nil interface value
PlainValues ==
    { Value("string", <<"a">>, <<>>), Value("string", <<>>, <<>>),
      Value("scalar", <<"1">>, <<>>), Value("scalar", <<"2">>, <<>>),
      Value("query", <<"q", "?">>, <<Value("scalar", <<"1">>, <<>>)>>),
      Value("string", <<"?">>, <<>>),
      Value("query", <<"r", "?">>, <<>>),
      NilValue }

\* slices of zero, one and two elements
SliceValues ==
    { Value("slice", <<>>, <<>>),
      Value("slice", <<>>, <<Value("scalar", <<"1">>, <<>>)>>),
      Value("slice", <<>>, <<Value("scalar", <<"2">>, <<>>), Value("scalar", <<"1">>, <<>>)>>),
      Value("slice", <<>>, <<NilValue, Value("string", <<"a">>, <<>>)>>) }

Values == PlainValues \cup SliceValues

\* the state after NewQueryBuilder()
BuilderInit ==
    /\ body = <<>>
    /\ smartScopeMode = FALSE
    /\ pc = "building"
    /\ i = 0
    /\ textStart = 0
    /\ tokens = <<>>
    /\ parts = <<>>
    /\ ip = 1
    /\ qb = NewQueryBuilder
    /\ query = NoQuery
    /\ FindIdle
    /\ FileIdle
    /\ BuilderIdle
    /\ DriverIdle
    /\ ScanIdle
    /\ RewriteIdle
    /\ HostIdle
    /\ WalkIdle
    /\ ImportsIdle

\* the builder can take one more call: no call has panicked
CanCall ==
    /\ pc = "building"
    /\ ~qb.panicked
    /\ lastCall.n < MaxCalls

CallAddText ==
    /\ CanCall
    /\ \E v \in Values :
           /\ qb' = AddText(qb, v)
           /\ lastCall' = [op |-> "AddText", arg |-> v, before |-> qb, n |-> lastCall.n + 1]
           /\ callLog' = Append(callLog, [op |-> "AddText", arg |-> v])
    /\ UNCHANGED <<pc, query>>
    /\ UNCHANGED offBuilder

\* a panic of the call ends the host program
CallAddParam ==
    /\ CanCall
    /\ \E v \in Values :
           /\ qb' = AddParam(qb, v)
           /\ lastCall' = [op |-> "AddParam", arg |-> v, before |-> qb, n |-> lastCall.n + 1]
           /\ callLog' = Append(callLog, [op |-> "AddParam", arg |-> v])
           /\ pc' = IF AddParam(qb, v).panicked THEN "panic" ELSE pc
    /\ UNCHANGED query
    /\ UNCHANGED offBuilder

CallBuild ==
    /\ pc = "building"
    /\ ~qb.panicked
    /\ query' = Build(qb)
    /\ pc' = "built"
    /\ UNCHANGED <<qb, lastCall, callLog>>
    /\ UNCHANGED offBuilder

BuilderNext ==
    \/ CallAddText
    \/ CallAddParam
    \/ CallBuild

BuilderSpec == BuilderInit /\ [][BuilderNext]_vars

-----------------------------------------------------------------------------
(* A host program that goes on using a builder and the Queries built from  *)
(* it: AddParam, AddText, Build, Query.AddArg (compiler/compile.go).       *)

\* number of calls the host program makes
MaxHostOps == 5
\* number of Queries it builds
MaxQueries == 2

\* the values the host program passes to AddParam, and to AddArg
HostParams ==
    { Value("scalar", <<"1">>, <<>>), Value("scalar", <<"2">>, <<>>),
      Value("slice", <<>>, <<Value("scalar", <<"1">>, <<>>), Value("scalar", <<"2">>, <<>>)>>) }

HostArgs == { Value("scalar", <<"3">>, <<>>) }

\* the state after NewQueryBuilder()
HostInit ==
    /\ TplIdle
    /\ FindIdle
    /\ FileIdle
    /\ BuilderIdle
    /\ DriverIdle
    /\ ScanIdle
    /\ RewriteIdle
    /\ HostIdle
    /\ WalkIdle
    /\ ImportsIdle

\* the builder as the calls see it: its text and the elements of its args
HostBuilder == [parts |-> btext, args |-> Elements(heap, bargs), panicked |-> FALSE]

\* the held Query k as a value passed to AddText
HeldValue(k) == Value("query", held[k].sql, Elements(heap, held[k].args))

\* the texts the host program passes to AddText: a string or a Query it holds
HostTexts == {Value("string", <<"a">>, <<>>)} \cup {HeldValue(k) : k \in 1..Len(held)}

\* the elements a call appended to the args of the builder b
Appended(b, after) == SubSeq(after.args, Len(b.args) + 1, Len(after.args))

\* the builder after a call: its text, and its args appended to, r being the
\* outcome of the append
HostCalled(after, r) ==
    /\ btext' = after.parts
    /\ heap' = r.heap
    /\ bargs' = r.slice
    /\ nops' = nops + 1
    /\ UNCHANGED <<held, kept>>
    /\ UNCHANGED offHost

HostCall(after) ==
    HostCalled(after, AppendSlice(heap, bargs, Appended(HostBuilder, after)))

HostAddParam ==
    /\ nops < MaxHostOps
    /\ \E v \in HostParams : HostCall(AddParam(HostBuilder, v))

HostAddText ==
    /\ nops < MaxHostOps
    /\ \E v \in HostTexts : HostCall(AddText(HostBuilder, v))

\* "return Query{sql: sql, args: qb.args}": the Query holds the slice of the
\* builder, not a copy of its elements
HostBuild ==
    /\ nops < MaxHostOps
    /\ Len(held) < MaxQueries
    /\ held' = Append(held, [sql |-> Build(HostBuilder).sql, args |-> bargs])
    /\ kept' = Append(kept, Build(HostBuilder))
    /\ nops' = nops + 1
    /\ UNCHANGED <<heap, btext, bargs>>
    /\ UNCHANGED offHost

\* Query.AddArg on the held Query k, r being the outcome of the append
ArgAdded(k, r) ==
    /\ heap' = r.heap
    /\ held' = [held EXCEPT ![k].args = r.slice]
    /\ kept' = [kept EXCEPT ![k].args = Elements(r.heap, r.slice)]
    /\ nops' = nops + 1
    /\ UNCHANGED <<btext, bargs>>
    /\ UNCHANGED offHost

HostAddArg ==
    /\ nops < MaxHostOps
    /\ \E k \in 1..Len(held) : \E v \in HostArgs :
           ArgAdded(k, AppendSlice(heap, held[k].args, <<v>>))

HostNext ==
    \/ HostAddParam
    \/ HostAddText
    \/ HostBuild
    \/ HostAddArg

HostSpec == HostInit /\ [][HostNext]_vars

-----------------------------------------------------------------------------
(* The driver: Compile, processDirectory, processGoxFile (compile.go).     *)

\* number of calls of Compile
MaxRuns == 2

\* A path is the sequence of its elements, an absolute one opening with "/";
\* the last element of a file's path is the suffix of its name.
Cwd == <<"/", "d">>
SrcA == <<"/", "d", "a", ".gox.go">>
SrcB == <<"/", "d", "b", ".gox.go">>
GenA == <<"/", "d", "a", "_gen.go">>
GenB == <<"/", "d", "b", "_gen.go">>
OutFile == <<"/", "d", "out", ".go">>
StaleGen == <<"/", "d", "c", "_gen.go">>
PlainFile == <<"/", "d", "n", ".go">>
OtherGen == <<"/", "e", "x", "_gen.go">>
MissingSrc == <<"/", "d", "zz", ".gox.go">>

Paths == {SrcA, SrcB, GenA, GenB, OutFile, StaleGen, PlainFile, OtherGen, MissingSrc}
InputFiles == {SrcA, SrcB}

\* filepath.IsAbs, and the path made absolute as Compile and processGoxFile do
IsAbs(path) == path # <<>> /\ path[1] = "/"
AbsPath(path) == IF IsAbs(path) THEN path ELSE Cwd \o path

\* strings.HasSuffix and strings.TrimSuffix on the suffix of a file name
HasNameSuffix(path, suffix) == path # <<>> /\ path[Len(path)] = suffix
TrimNameSuffix(path, suffix) ==
    IF HasNameSuffix(path, suffix) THEN SubSeq(path, 1, Len(path) - 1) ELSE path

\* the path lies under the directory root
Under(root, path) == Len(path) > Len(root) /\ SubSeq(path, 1, Len(root)) = root

\* info.IsDir() of os.Stat
IsDir(path) == path = Cwd

\* "goPath := strings.TrimSuffix(goxPath, ".gox.go") + "_gen.go""
GenPath(goxPath) == TrimNameSuffix(goxPath, ".gox.go") \o <<"_gen.go">>

\* shouldSkipFile on the files: the destination exists and is not older
shouldSkipFile(files, srcPath, destPath) ==
    /\ files[srcPath] # 0
    /\ files[destPath] # 0
    /\ files[destPath] >= files[srcPath]

\* the files filepath.Walk deletes under the root removeGenerated
GeneratedUnder(files, root) ==
    {path \in Paths : files[path] # 0 /\ Under(root, path) /\ HasNameSuffix(path, "_gen.go")}

\* the directory and every path under it, in the lexical order in which
\* filepath.WalkDir visits them
WalkOrder == <<Cwd, SrcA, GenA, SrcB, GenB, StaleGen, PlainFile, OutFile, MissingSrc>>

\* the entries the walk of the directory visits, on the files
Present(path, files) == IF IsDir(path) THEN TRUE ELSE files[path] # 0
DirEntries(files) == SelectSeq(WalkOrder, LAMBDA path : Present(path, files))

\* the callback of the walk: "if d.IsDir() { return nil }",
\* "if !strings.HasSuffix(path, ".gox.go") { return nil }"
WantsTask(path) == ~IsDir(path) /\ HasNameSuffix(path, ".gox.go")

\* mutant: processDirectory does not wait
WaitGroupCountNone(ts) == 0

\* the counter of the WaitGroup: the tasks started that have not returned
WaitGroupCount(ts) ==
    Cardinality({t \in DOMAIN ts : ts[t].st \in {"started", "read", "generated", "failed"}})

NoTask == [st |-> "none", dest |-> <<>>, at |-> 0]
NoTasks == [t \in InputFiles |-> NoTask]

\* the Compiler values: every combination of the options
Options ==
    [Incremental : BOOLEAN,
     SingleFile : {<<>>, SrcA},
     RemoveGenerated : {<<>>, Cwd},
     SrcPath : {<<"/", "d">>, <<"b", ".gox.go">>, MissingSrc},
     DestPath : {<<"out", ".go">>, GenA}]

\* the files before the first run: both inputs, an ordinary file, a generated
\* file without input, a generated file of another directory, and the
\* generated file of the first input absent, older or newer than its input
InitialFiles ==
    {[path \in Paths |->
         CASE path \in InputFiles -> 2
           [] path \in {StaleGen, PlainFile, OtherGen} -> 1
           [] path = GenA -> m
           [] OTHER -> 0] : m \in {0, 1, 3}}

DriverInit ==
    /\ TplIdle
    /\ FindIdle
    /\ FileIdle
    /\ BuilderIdle
    /\ ScanIdle
    /\ RewriteIdle
    /\ HostIdle
    /\ WalkIdle
    /\ ImportsIdle
    /\ opts \in Options
    /\ bad \in {{}, {SrcA}, {SrcB}}
    /\ fsys \in InitialFiles
    /\ clock = 3
    /\ dpc = "idle"
    /\ tasks = NoTasks
    /\ runs = 0
    /\ prev = NoTasks
    /\ removed = {}
    /\ fs0 = fsys

\* Compile is called: the run begins, later than everything before it
BeginRun ==
    /\ dpc = "idle"
    /\ runs < MaxRuns
    /\ clock' = clock + 2
    /\ removed' = {}
    /\ fs0' = fsys
    /\ UNCHANGED <<opts, bad, fsys, runs, prev>>
    /\ UNCHANGED offDriver

\* "if singleFile != """: the file is processed and Compile returns
CompileSingle ==
    /\ opts.SingleFile # <<>>
    /\ BeginRun
    /\ tasks' = [NoTasks EXCEPT ![opts.SingleFile].st = "started"]
    /\ dpc' = "single"

\* os.Stat finds the path: the directory, or a file that exists
StatFinds(path) == IF IsDir(path) THEN TRUE ELSE fsys[path] # 0

\* os.Stat of the source path fails: log.Fatal
CompileStatFails ==
    /\ opts.SingleFile = <<>>
    /\ ~StatFinds(AbsPath(opts.SrcPath))
    /\ BeginRun
    /\ tasks' = NoTasks
    /\ dpc' = "fatal"

CompileStat ==
    /\ opts.SingleFile = <<>>
    /\ StatFinds(AbsPath(opts.SrcPath))
    /\ BeginRun
    /\ tasks' = NoTasks
    /\ dpc' = IF opts.RemoveGenerated # <<>> THEN "remove" ELSE "dispatch"

\* the walk that deletes the generated files under removeGenerated
RemoveGeneratedFiles ==
    /\ dpc = "remove"
    /\ removed' = GeneratedUnder(fsys, opts.RemoveGenerated)
    /\ fsys' = [path \in Paths |->
                   IF path \in GeneratedUnder(fsys, opts.RemoveGenerated) THEN 0 ELSE fsys[path]]
    /\ dpc' = "dispatch"
    /\ UNCHANGED <<opts, bad, clock, tasks, runs, prev, fs0>>
    /\ UNCHANGED offDriver

DispatchDirectory ==
    /\ dpc = "dispatch"
    /\ IsDir(AbsPath(opts.SrcPath))
    /\ dpc' = "walk"
    /\ walkLeft' = DirEntries(fsys)
    /\ started' = [path \in Paths |-> 0]
    /\ UNCHANGED <<opts, bad, fsys, clock, tasks, runs, prev, removed, fs0>>
    /\ UNCHANGED offDirWalk

DispatchFile ==
    /\ dpc = "dispatch"
    /\ ~IsDir(AbsPath(opts.SrcPath))
    /\ tasks' = [tasks EXCEPT ![AbsPath(opts.SrcPath)].st = "started"]
    /\ dpc' = "single"
    /\ UNCHANGED <<opts, bad, fsys, clock, runs, prev, removed, fs0>>
    /\ UNCHANGED offDriver

\* the walk goes on to the next entry, or has visited them all: "wg.Wait()"
Walked ==
    /\ walkLeft' = Tail(walkLeft)
    /\ dpc' = IF Tail(walkLeft) = <<>> THEN "wait" ELSE "walk"

\* the walk of processDirectory meets an input file: "wg.Add(1)", "go func()"
Spawn ==
    /\ dpc = "walk"
    /\ walkLeft # <<>>
    /\ WantsTask(Head(walkLeft))
    /\ tasks' = [tasks EXCEPT ![Head(walkLeft)].st = "started"]
    /\ started' = [started EXCEPT ![Head(walkLeft)] = @ + 1]
    /\ Walked
    /\ UNCHANGED <<opts, bad, fsys, clock, runs, prev, removed, fs0>>
    /\ UNCHANGED offDirWalk

\* the walk meets a directory or another file: "return nil"
WalkPass ==
    /\ dpc = "walk"
    /\ walkLeft # <<>>
    /\ ~WantsTask(Head(walkLeft))
    /\ Walked
    /\ UNCHANGED <<opts, bad, fsys, clock, tasks, runs, prev, removed, fs0, started>>
    /\ UNCHANGED offDirWalk

\* the process is running tasks
Running == dpc \in {"walk", "wait", "single"}

\* a step of the task of t that changes nothing but the task
TaskTo(t, from, to) ==
    /\ Running
    /\ tasks[t].st = from
    /\ tasks' = [tasks EXCEPT ![t].st = to]
    /\ UNCHANGED <<opts, bad, fsys, clock, dpc, runs, prev, removed, fs0>>
    /\ UNCHANGED offDriver

\* the incremental test of processGoxFile, on the path derived from the input
SkipsFile(t) == opts.Incremental /\ shouldSkipFile(fsys, t, GenPath(t))

TaskSkip ==
    \E t \in InputFiles :
        /\ SkipsFile(t)
        /\ TaskTo(t, "started", "skipped")

\* os.ReadFile
TaskRead ==
    \E t \in InputFiles :
        /\ ~SkipsFile(t)
        /\ TaskTo(t, "started", "read")

\* ParseFile and GenerateFile succeed
TaskGenerate ==
    \E t \in InputFiles :
        /\ t \notin bad
        /\ TaskTo(t, "read", "generated")

\* ParseFile or GenerateFile returns an error, and processGoxFile with it
TaskError ==
    \E t \in InputFiles :
        /\ t \in bad
        /\ TaskTo(t, "read", "failed")

\* "goPath = c.DestPath", made absolute, and os.WriteFile
TaskWrite ==
    \E t \in InputFiles :
        /\ Running
        /\ tasks[t].st = "generated"
        /\ fsys' = [fsys EXCEPT ![AbsPath(opts.DestPath)] = clock]
        /\ tasks' = [tasks EXCEPT ![t] = [st |-> "written", dest |-> AbsPath(opts.DestPath),
                                          at |-> clock]]
        /\ UNCHANGED <<opts, bad, clock, dpc, runs, prev, removed, fs0>>
        /\ UNCHANGED offDriver

\* "panic(err)" in the goroutine of a task: the process ends, and with it
\* every task that has not finished
Panic ==
    /\ dpc \in {"walk", "wait"}
    /\ \E t \in InputFiles : tasks[t].st = "failed"
    /\ dpc' = "crashed"
    /\ UNCHANGED <<opts, bad, fsys, clock, tasks, runs, prev, removed, fs0>>
    /\ UNCHANGED offDriver

\* "log.Fatal(err)" after processGoxFile of a single file
FatalSingle ==
    /\ dpc = "single"
    /\ \E t \in InputFiles : tasks[t].st = "failed"
    /\ dpc' = "fatal"
    /\ UNCHANGED <<opts, bad, fsys, clock, tasks, runs, prev, removed, fs0>>
    /\ UNCHANGED offDriver

\* Compile returns
Return ==
    /\ dpc' = "idle"
    /\ runs' = runs + 1
    /\ prev' = tasks
    /\ UNCHANGED <<opts, bad, fsys, clock, tasks, removed, fs0>>
    /\ UNCHANGED offDriver

\* "wg.Wait()" returns: every task has returned
ReturnDirectory ==
    /\ dpc = "wait"
    /\ WaitGroupCount(tasks) = 0
    /\ Return

ReturnSingle ==
    /\ dpc = "single"
    /\ \E t \in InputFiles : tasks[t].st \in {"written", "skipped"}
    /\ Return

\* between two runs the user edits an input file
TouchSource ==
    /\ dpc = "idle"
    /\ runs >= 1
    /\ runs < MaxRuns
    /\ \E t \in InputFiles :
           /\ fsys[t] <= clock
           /\ fsys' = [fsys EXCEPT ![t] = clock + 1]
    /\ UNCHANGED <<opts, bad, clock, dpc, tasks, runs, prev, removed, fs0>>
    /\ UNCHANGED offDriver

\* the steps the Go scheduler and the run of Compile take by themselves
Scheduled ==
    \/ RemoveGeneratedFiles
    \/ DispatchDirectory
    \/ DispatchFile
    \/ Spawn
    \/ WalkPass
    \/ TaskSkip
    \/ TaskRead
    \/ TaskGenerate
    \/ TaskError
    \/ TaskWrite
    \/ Panic
    \/ FatalSingle
    \/ ReturnDirectory
    \/ ReturnSingle

DriverNext ==
    \/ CompileSingle
    \/ CompileStatFails
    \/ CompileStat
    \/ TouchSource
    \/ Scheduled

DriverSpec == DriverInit /\ [][DriverNext]_vars

\* every goroutine that can run is run, and a call in progress goes on
DriverLiveSpec == DriverInit /\ [][DriverNext]_vars /\ WF_vars(Scheduled)

-----------------------------------------------------------------------------
(* tokenizeSQLContent called on a template body, in either mode.           *)

\* number of fragments a template body given to the tokenizer is built from
MaxTokFrags == 3

TokFragments ==
    { <<"@", "b", " ", "(">>, <<"\n", ")">>, <<"{">>, <<"}">>, <<"{", "a", "}">>,
      <<"#", "{", "x", "}">>, <<"$", "{">>, <<"@", "@", "{", "a", "}">>,
      <<"@", "{">>, <<"@", "\n">> }

TokBodies == {Flatten(fs) : fs \in UNION {[1..n -> TokFragments] : n \in 0..MaxTokFrags}}

\* parseSQLBlock has called tokenizeSQLContent on a body, in a file with or
\* without the marker
TokInit ==
    /\ body \in TokBodies
    /\ smartScopeMode \in BOOLEAN
    /\ pc = "tokenize"
    /\ i = 0
    /\ textStart = 0
    /\ tokens = <<>>
    /\ parts = <<>>
    /\ ip = 1
    /\ qb = NewQueryBuilder
    /\ query = NoQuery
    /\ FindIdle
    /\ FileIdle
    /\ BuilderIdle
    /\ DriverIdle
    /\ ScanIdle
    /\ RewriteIdle
    /\ HostIdle
    /\ WalkIdle
    /\ ImportsIdle

TokNext ==
    \/ TokParam
    \/ TokTextExpr
    \/ TokDoubleAt
    \/ TokAtBlock
    \/ TokAtLine
    \/ TokCodeBlock
    \/ TokChar
    \/ TokEnd

TokSpec == TokInit /\ [][TokNext]_vars

-----------------------------------------------------------------------------
(* findControlStructureParen called on a line.                             *)

\* number of fragments a line is built from
MaxLineFrags == 4

\* identifier characters, spaces, parentheses, a string literal that holds a
\* parenthesis, one that holds an escaped quote, and a lone quote
LineFragments ==
    { <<"f">>, <<"_">>, <<" ">>, <<"(">>, <<")">>, <<"\"", "(", "\"">>,
      <<"'", "\\", "'", ")", "'">>, <<BackQuote>> }

Lines == {Flatten(fs) : fs \in UNION {[1..n -> LineFragments] : n \in 0..MaxLineFrags}}

ScanInit ==
    /\ TplIdle
    /\ FindIdle
    /\ FileIdle
    /\ BuilderIdle
    /\ DriverIdle
    /\ RewriteIdle
    /\ HostIdle
    /\ WalkIdle
    /\ ImportsIdle
    /\ ctlLine \in Lines
    /\ ctlParen = -2

CallFindControlStructureParen ==
    /\ ctlParen = -2
    /\ ctlParen' = findControlStructureParen(ctlLine)
    /\ UNCHANGED ctlLine
    /\ UNCHANGED offScan

ScanNext == CallFindControlStructureParen

ScanSpec == ScanInit /\ [][ScanNext]_vars

-----------------------------------------------------------------------------
(* The import injection of the generator: addNecessaryImports             *)
(* (parser/generator.go, parser/import_analyzer.go).  A code is the        *)
(* sequence of its lines, that is strings.Split(code, "\n").               *)

\* number of lines after the import declarations of a code
MaxBodyLines == 3

ImportWord == <<"i", "m", "p", "o", "r", "t">>
PackageWord == <<"p", "a", "c", "k", "a", "g", "e", " ">>

PathX == <<"x">>
PathFmt == <<"fmt">>
PathOs == <<"os">>
PathRuntime == <<"runtime">>
PathThird == <<"g", ".", "c">>

PackageLine == PackageWord \o <<"p">>
ImportOpen == ImportWord \o <<" ", "(">>
ImportClose == <<")">>
PathLine(path) == (<<"\t", "\"">> \o path) \o <<"\"">>
SingleImport(path) == (ImportWord \o <<" ", "\"">>) \o (path \o <<"\"">>)

\* the import declarations a code opens with
ImportSections ==
    { <<>>,
      <<ImportOpen, PathLine(PathX), ImportClose>>,
      <<ImportOpen, PathLine(PathRuntime), PathLine(PathThird), ImportClose>>,
      <<SingleImport(PathX)>> }

\* the lines after them
BodyLineKinds ==
    { <<"var", " ", "v", " ", "int">>,
      <<"func", " ", "f", "(", ")", " ", "{">>,
      <<"\t", "fmt", ".", "P", "(", ")">>,
      <<"\t", "_", " ", "=", " ", "os", ".", "A">>,
      <<"}">> }

Codes ==
    {(<<PackageLine>> \o sect) \o rest :
        sect \in ImportSections,
        rest \in UNION {[1..n -> BodyLineKinds] : n \in 0..MaxBodyLines}}

\* the packages the analyzer knows (a part of systemPackages)
SystemPackages == {PathFmt, PathOs, PathRuntime}

\* AnalyzeImports: the known packages the code selects a name of.  go/parser
\* and go/ast are libraries: the model takes a package for used where its
\* name is followed by a dot.
AnalyzeImports(lines) ==
    {pkg \in SystemPackages :
        \E k \in 1..Len(lines) : Contains(lines[k], pkg \o <<".">>)}

\* strings.HasPrefix(trimmed, `"`) && strings.HasSuffix(trimmed, `"`)
IsQuoted(trimmed) == trimmed # <<>> /\ trimmed[1] = "\"" /\ trimmed[Len(trimmed)] = "\""

\* strings.Trim(trimmed, `"`)
RECURSIVE TrimQuotes(_)
TrimQuotes(t) ==
    IF t # <<>> /\ t[1] = "\"" THEN TrimQuotes(Tail(t))
    ELSE IF t # <<>> /\ t[Len(t)] = "\"" THEN TrimQuotes(SubSeq(t, 1, Len(t) - 1))
    ELSE t

\* parseImportBlock: the keys of the map
parseImportBlock(blockLines) ==
    {TrimQuotes(TrimSpace(blockLines[k])) :
        k \in {j \in 1..Len(blockLines) : IsQuoted(TrimSpace(blockLines[j]))}}

\* the loop of extractExistingImports: the keys of the map it returns
RECURSIVE ExtractLoop(_, _, _, _)
ExtractLoop(lines, k, inImport, importBlock) ==
    IF k > Len(lines) THEN {}
    ELSE IF HasPrefix(TrimSpace(lines[k]), ImportWord)
    THEN ExtractLoop(lines, k + 1, TRUE, Append(importBlock, lines[k]))
    ELSE IF inImport
    THEN IF Contains(lines[k], <<")">>)
         THEN parseImportBlock(Append(importBlock, lines[k]))
         ELSE ExtractLoop(lines, k + 1, TRUE, Append(importBlock, lines[k]))
    ELSE ExtractLoop(lines, k + 1, FALSE, importBlock)

extractExistingImports(lines) == ExtractLoop(lines, 1, FALSE, <<>>)

\* MergeImports: the keys of the merged map
MergeImports(existing, new) == existing \cup new

\* the orders in which a range over the map can yield its keys
Orders(paths) ==
    {o \in [1..Cardinality(paths) -> paths] : \A a, b \in DOMAIN o : a # b => o[a] # o[b]}

IsThirdParty(path) ==
    Contains(path, <<".">>) /\ ~HasPrefix(path, <<"golang", ".", "org", "/">>)

PathLines(paths) == [k \in 1..Len(paths) |-> PathLine(paths[k])]

\* the lines of the block, the standard library first
BlockOf(stdLibs, thirdParty) ==
    (((<<ImportOpen>> \o PathLines(stdLibs))
      \o (IF thirdParty # <<>> /\ stdLibs # <<>> THEN << <<>> >> ELSE <<>>))
     \o PathLines(thirdParty))
    \o <<ImportClose, <<>>, <<>>>>

\* mutant: the existing imports are left out of the block
GenerateImportBlockStdOnly(paths) ==
    BlockOf(SelectSeq(paths, LAMBDA path : path \in SystemPackages /\ path # PathRuntime), <<>>)

\* GenerateImportBlock on the keys in the order the range yields them: the
\* text "import (\n ... )\n\n" as its lines, "runtime" left out
GenerateImportBlock(paths) ==
    IF paths = <<>> THEN << <<>> >>
    ELSE BlockOf(SelectSeq(paths, LAMBDA path : path # PathRuntime /\ ~IsThirdParty(path)),
                 SelectSeq(paths, LAMBDA path : path # PathRuntime /\ IsThirdParty(path)))

\* the loop of replaceOrAddImports; st holds result, inImport, packageFound
\* and importReplaced
RECURSIVE ReplaceLoop(_, _, _, _)
ReplaceLoop(lines, importBlock, k, st) ==
    IF k > Len(lines) THEN st.result
    ELSE IF HasPrefix(TrimSpace(lines[k]), ImportWord)
    THEN ReplaceLoop(lines, importBlock, k + 1, [st EXCEPT !.inImport = TRUE])
    ELSE IF st.inImport
    THEN IF Contains(lines[k], <<")">>)
         THEN ReplaceLoop(lines, importBlock, k + 1,
                  [st EXCEPT !.result = IF st.importReplaced THEN @ ELSE @ \o importBlock,
                             !.importReplaced = TRUE,
                             !.inImport = FALSE])
         ELSE ReplaceLoop(lines, importBlock, k + 1, st)
    ELSE IF HasPrefix(TrimSpace(lines[k]), PackageWord)
    THEN IF st.packageFound
         THEN ReplaceLoop(lines, importBlock, k + 1, st)
         ELSE ReplaceLoop(lines, importBlock, k + 1,
                  [st EXCEPT !.result = IF st.importReplaced
                                        THEN Append(@, lines[k])
                                        ELSE (Append(@, lines[k]) \o << <<>> >>) \o importBlock,
                             !.importReplaced = TRUE,
                             !.packageFound = TRUE])
    ELSE ReplaceLoop(lines, importBlock, k + 1, [st EXCEPT !.result = Append(@, lines[k])])

\* the lines of strings.Join(result, "\n")
replaceOrAddImports(lines, importBlock) ==
    ReplaceLoop(lines, importBlock, 1,
                [result |-> <<>>, inImport |-> FALSE, packageFound |-> FALSE,
                 importReplaced |-> FALSE])

\* GenerateFile has the code of a file and calls addNecessaryImports
ImportsInit ==
    /\ TplIdle
    /\ FindIdle
    /\ FileIdle
    /\ BuilderIdle
    /\ DriverIdle
    /\ ScanIdle
    /\ RewriteIdle
    /\ HostIdle
    /\ WalkIdle
    /\ genCode \in Codes
    /\ impBlock = <<>>
    /\ outLines = <<>>
    /\ gpc = "analyze"

\* "if len(neededImports) == 0 { return code }"
ReturnUnchanged ==
    /\ gpc = "analyze"
    /\ AnalyzeImports(genCode) = {}
    /\ outLines' = genCode
    /\ gpc' = "done"
    /\ UNCHANGED <<genCode, impBlock>>
    /\ UNCHANGED offImports

\* extractExistingImports, MergeImports and GenerateImportBlock
MergeAndGenerate ==
    /\ gpc = "analyze"
    /\ AnalyzeImports(genCode) # {}
    /\ \E o \in Orders(MergeImports(extractExistingImports(genCode), AnalyzeImports(genCode))) :
           impBlock' = GenerateImportBlock(o)
    /\ gpc' = "replace"
    /\ UNCHANGED <<genCode, outLines>>
    /\ UNCHANGED offImports

ReplaceOrAdd ==
    /\ gpc = "replace"
    /\ outLines' = replaceOrAddImports(genCode, impBlock)
    /\ gpc' = "done"
    /\ UNCHANGED <<genCode, impBlock>>
    /\ UNCHANGED offImports

ImportsNext ==
    \/ ReturnUnchanged
    \/ MergeAndGenerate
    \/ ReplaceOrAdd

ImportsSpec == ImportsInit /\ [][ImportsNext]_vars

-----------------------------------------------------------------------------
(* Properties of the template pipeline.                                    *)

\* generateGoCodeForSQL has run on the body
Generated == pc \in {"run", "done", "hostcode"}

\* the statements between the creation of the builder and Build
Emitted == SubSeq(parts, 2, Len(parts) - 1)

FramedByBuilder ==
    /\ Len(parts) >= 2
    /\ parts[1] = NewBuilderStmt(TopVarName)
    /\ parts[Len(parts)] = BuildStmt(TopVarName)

CommentLike(t) == HasPrefix(t, <<"/", "/">>) \/ HasPrefix(t, <<"-", "-">>)

\* the length of the text run that opens s: up to the next # or $
RECURSIVE RunLen(_)
RunLen(s) == IF s = <<>> \/ Head(s) \in {"#", "$"} THEN 0 ELSE 1 + RunLen(Tail(s))

\* A body read by the grammar "text runs, #{ident} and ${ident} on one line":
\* its items in textual order, ok when the body is of that grammar with every
\* text run non-blank.
RECURSIVE SimpleItems(_)
SimpleItems(s) ==
    IF s = <<>> THEN [ok |-> TRUE, items |-> <<>>]
    ELSE IF Head(s) \in {"#", "$"}
    THEN LET close == Index(s, <<"}">>)
             rest == SimpleItems(From(s, close + 1))
         IN  IF Len(s) >= 2 /\ s[2] = "{" /\ close # -1 /\ IsIdentExpr(Slice(s, 2, close))
             THEN [ok |-> rest.ok,
                   items |-> <<[kind |-> Head(s), s |-> Slice(s, 2, close)]>> \o rest.items]
             ELSE [ok |-> FALSE, items |-> <<>>]
    ELSE LET n == RunLen(s)
             run == SubSeq(s, 1, n)
             rest == SimpleItems(SubSeq(s, n + 1, Len(s)))
         IN  IF /\ \A k \in 1..n : run[k] \notin {"{", "}", "@", "\n", "\r"}
                /\ TrimSpace(run) # <<>>
             THEN [ok |-> rest.ok, items |-> <<[kind |-> "text", s |-> run]>> \o rest.items]
             ELSE [ok |-> FALSE, items |-> <<>>]

\* the call the first claim names for one item
ItemCall(item) ==
    IF item.kind = "text"
    THEN (<<"__gox_sql_0_builder", ".AddText", "(">> \o Quote(item.s)) \o <<")">>
    ELSE IF item.kind = "#"
    THEN (<<"__gox_sql_0_builder", ".AddParam", "(">> \o item.s) \o <<")">>
    ELSE (<<"__gox_sql_0_builder", ".AddText", "(">> \o item.s) \o <<")">>

ItemCalls(items) == [k \in 1..Len(items) |-> ItemCall(items[k])]

NoCommentRun(items) ==
    \A k \in 1..Len(items) : items[k].kind = "text" => ~CommentLike(TrimSpace(items[k].s))

\* C1 as stated: for a one-line body of non-blank text runs and #{ident} /
\* ${ident} sigils the emitted statements are the new builder, one call per
\* item in textual order (AddText of the quoted run, AddParam of the
\* identifier, AddText of the identifier) and Build.
C1_OneCallPerItem ==
    (Generated /\ SimpleItems(body).ok)
        => parts = (<<NewBuilderStmt(TopVarName)>> \o ItemCalls(SimpleItems(body).items))
                   \o <<BuildStmt(TopVarName)>>

\* C1 amended: the same, for bodies none of whose text runs has a trimmed
\* form that begins with // or --.
C1_OneCallPerItemNoComment ==
    (Generated /\ SimpleItems(body).ok /\ NoCommentRun(SimpleItems(body).items))
        => parts = (<<NewBuilderStmt(TopVarName)>> \o ItemCalls(SimpleItems(body).items))
                   \o <<BuildStmt(TopVarName)>>

\* a text run, a parameter and a text expression have been emitted
C1_Witness ==
    /\ Generated
    /\ body = <<"a", "#", "{", "x", "}", "$", "{", "y", "}">>
    /\ SimpleItems(body).ok
    /\ NoCommentRun(SimpleItems(body).items)
    /\ Len(parts) = 5

-----------------------------------------------------------------------------
(* Parameter order.                                                        *)

\* the index of the brace that closes the one at p, by counting depth; -1
\* when there is none
Depth(s, p, e) ==
    Cardinality({k \in p..e : At(s, k) = "{"}) - Cardinality({k \in p..e : At(s, k) = "}"})

CloserOf(s, p) ==
    LET es == {e \in (p + 1)..(Len(s) - 1) : Depth(s, p, e) = 0}
    IN  IF es = {} THEN -1 ELSE Min(es)

\* position k lies inside a balanced pair of braces opened before it
Enclosed(s, k) ==
    \E p \in 0..(k - 1) : At(s, p) = "{" /\ CloserOf(s, p) > k

\* the positions of the balanced top-level #{ of the body
TopParamAt(s) ==
    {k \in 0..(Len(s) - 2) :
        /\ At(s, k) = "#"
        /\ At(s, k + 1) = "{"
        /\ CloserOf(s, k + 1) # -1
        /\ ~Enclosed(s, k)}

\* the elements of the finite set of integers S in increasing order
RECURSIVE Ascending(_)
Ascending(S) == IF S = {} THEN <<>> ELSE <<Min(S)>> \o Ascending(S \ {Min(S)})

\* e1, ..., en: the trimmed contents of the top-level #{...} in textual order
TopParams(s) ==
    LET at == Ascending(TopParamAt(s))
    IN  [k \in 1..Len(at) |-> TrimSpace(Slice(s, at[k] + 2, CloserOf(s, at[k] + 1)))]

ArgNames(args) == [k \in 1..Len(args) |-> args[k].s]

\* the only sigils of the body are #{ and ${: no @, and no brace that opens a
\* code block
OnlyBraceSigils(s) ==
    \A k \in 1..Len(s) :
        /\ s[k] # "@"
        /\ s[k] = "{" => (k > 1 /\ s[k - 1] \in {"#", "$"})

\* C2: when the generated statements have run, the arguments of the Query
\* are the expressions of the top-level #{...} of the body, in textual order:
\* none dropped, none duplicated, none reordered (bodies whose only sigils are
\* #{ and ${; code blocks and @ constructs bind parameters of their own).
C2_ArgsInTextualOrder ==
    (pc = "done" /\ OnlyBraceSigils(body)) => ArgNames(query.args) = TopParams(body)

\* two parameters have been bound, the second of the alphabet first
C2_Witness ==
    /\ pc = "done"
    /\ OnlyBraceSigils(body)
    /\ ArgNames(query.args) = <<<<"z">>, <<"x">>>>
    /\ TopParams(body) = <<<<"z">>, <<"x">>>>

-----------------------------------------------------------------------------
(* Text preservation.                                                      *)

\* some brace of the body has no balancing closer
HasUnmatchedOpener(s) == \E p \in 0..(Len(s) - 1) : At(s, p) = "{" /\ CloserOf(s, p) = -1

\* the Text tokens that hold the character at position k
TextTokensAt(k) ==
    {t \in 1..Len(tokens) :
        tokens[t].Type = SQLTokenText /\ tokens[t].Start <= k /\ k < tokens[t].End}

\* C3: in a body with an unmatched opener no character lies in two Text
\* tokens, so the text in front of the opener is emitted once.
C3_TextEmittedOnce ==
    (pc = "tokenized" /\ HasUnmatchedOpener(body))
        => \A k \in 0..(Len(body) - 1) : Cardinality(TextTokensAt(k)) <= 1

\* the contents of the Text nodes, joined in order
RECURSIVE TextOf(_)
TextOf(nodes) ==
    IF nodes = <<>> THEN <<>>
    ELSE (IF Head(nodes).Kind = SQLText THEN Head(nodes).Content ELSE <<>>) \o TextOf(Tail(nodes))

\* the body without its balanced #{...} and ${...}
RECURSIVE RemoveSigils(_)
RemoveSigils(s) ==
    IF s = <<>> THEN <<>>
    ELSE IF Head(s) \in {"#", "$"} /\ Len(s) >= 2 /\ s[2] = "{" /\ CloserOf(s, 1) # -1
    THEN RemoveSigils(From(s, CloserOf(s, 1) + 1))
    ELSE <<Head(s)>> \o RemoveSigils(Tail(s))

\* the lines of s, each with the newline that ends it
RECURSIVE LinesWithEnd(_)
LinesWithEnd(s) ==
    LET k == Index(s, <<"\n">>)
    IN  IF s = <<>> THEN <<>>
        ELSE IF k = -1 THEN <<s>>
        ELSE <<Slice(s, 0, k + 1)>> \o LinesWithEnd(From(s, k + 1))

\* s with every line removed whose trimmed form begins // or --
RECURSIVE DropCommentLines(_)
DropCommentLines(lines) ==
    IF lines = <<>> THEN <<>>
    ELSE (IF CommentLike(TrimSpace(Head(lines))) THEN <<>> ELSE Head(lines))
         \o DropCommentLines(Tail(lines))

StripCommentLines(s) == DropCommentLines(LinesWithEnd(s))

BeginsAndEndsWithSigil(s) ==
    /\ Len(s) >= 2
    /\ s[1] \in {"#", "$"}
    /\ s[2] = "{"
    /\ s[Len(s)] = "}"

\* C4: for a body of balanced #{...} / ${...} and text that begins and ends
\* with a sigil, the contents of the Text nodes joined in order are the body
\* without its sigils and without its comment lines; the text between two
\* sigils may be white space only.
C4_TextNodesAreBodyWithoutSigils ==
    (pc = "tokenized" /\ OnlyBraceSigils(body) /\ ~HasUnmatchedOpener(body)
        /\ BeginsAndEndsWithSigil(body))
        => TextOf(tokensToNodes(tokens)) = StripCommentLines(RemoveSigils(body))

\* the body holds none of the characters that open a sigil
SigilFree(s) == \A k \in 1..Len(s) : s[k] \notin {"#", "$", "@", "{"}

\* stmt is an AddText call of the top builder on a string literal
IsTextLiteralCall(stmt) ==
    /\ Len(stmt) >= 5
    /\ SubSeq(stmt, 1, 3) = <<"__gox_sql_0_builder", ".AddText", "(">>
    /\ stmt[Len(stmt)] = ")"
    /\ IsStringLit(SubSeq(stmt, 4, Len(stmt) - 1))

\* the values of the literals of the statements stmts, concatenated
RECURSIVE LiteralsOf(_)
LiteralsOf(stmts) ==
    IF stmts = <<>> THEN <<>>
    ELSE Unquote(SubSeq(Head(stmts), 4, Len(Head(stmts)) - 1)) \o LiteralsOf(Tail(stmts))

\* C5: for a sigil-free body, blank or not, the emitted statements are
\* AddText calls on string literals whose values concatenate to the body
\* without its comment lines.
C5_SigilFreeVerbatim ==
    (Generated /\ SigilFree(body))
        => /\ FramedByBuilder
           /\ \A k \in 1..Len(Emitted) : IsTextLiteralCall(Emitted[k])
           /\ LiteralsOf(Emitted) = StripCommentLines(body)

-----------------------------------------------------------------------------
(* Sub-templates.                                                          *)

\* stmt adds to the top builder the value of an immediately-invoked function
IsNestedQueryCall(stmt) ==
    /\ Len(stmt) >= 5
    /\ SubSeq(stmt, 1, 4) = <<"__gox_sql_0_builder", ".AddText", "(", "func">>

\* C6: a top-level @@{...} is emitted as an AddText of an immediately-invoked
\* function on the outer builder; it is never dropped.
C6_DoubleAtEmitted ==
    (Generated /\ \E t \in 1..Len(tokens) : tokens[t].Type = SQLTokenDoubleAtBlock)
        => \E k \in 1..Len(parts) : IsNestedQueryCall(parts[k])

\* the code is one @@{...} and nothing else
SoleDoubleAt(code) ==
    /\ Len(code) >= 4
    /\ SubSeq(code, 1, 3) = <<"@", "@", "{">>
    /\ CloserOf(code, 2) = Len(code) - 1

\* C7: when a code block consists of one @@{...}, the text generated for it
\* holds no use of the enclosing builder: every call in it is on the
\* sub-template's own builder.
C7_NestedOwnBuilder ==
    (Generated /\ Len(tokens) = 1 /\ tokens[1].Type = SQLTokenCodeBlock
        /\ SoleDoubleAt(TrimSpace(tokens[1].Content)))
        => /\ Len(parts) = 3
           /\ \A k \in 1..Len(parts[2]) : parts[2][k] # "__gox_sql_0_builder"

-----------------------------------------------------------------------------
(* The @ shorthand at the top level.                                       *)

NewlineCall == <<"__gox_sql_0_builder", ".AddText", "(", "\"", "\\", "n", "\"", ")">>
EmptyTextCall == <<"__gox_sql_0_builder", ".AddText", "(", "\"", "\"", ")">>

\* the body opens with an @ shorthand that the tokenizer kept as a line
OpensWithAtLine == Generated /\ tokens # <<>> /\ tokens[1].Type = SQLTokenAtLine

\* the calls for the content of that line
LineContentCalls == processSQLPartForParams(tokens[1].Content, TopBuilder, smartScopeMode).calls

\* a code block opens on the line of that shorthand
BraceOnLine ==
    OriginalBracePos(body, tokens[1].Start, LineEndFrom(body, tokens[1].Start + 1)) # -1

-----------------------------------------------------------------------------
(* Properties of the call finder.                                          *)

Contents(bs) == [k \in 1..Len(bs) |-> bs[k].Content]

\* the source with every runtime.Query( written gox.Sql(
RECURSIVE AsSqlCalls(_)
AsSqlCalls(s) ==
    IF s = <<>> THEN <<>>
    ELSE IF HasPrefix(s, RuntimeQueryPrefix)
    THEN GoxSqlPrefix \o AsSqlCalls(SubSeq(s, Len(RuntimeQueryPrefix) + 1, Len(s)))
    ELSE <<Head(s)>> \o AsSqlCalls(Tail(s))

\* C9: the calls reported for a source are those reported, with the same
\* bodies, for the source in which every runtime.Query( is written as the
\* Sql call.
C9_RuntimeQueryLikeSql ==
    fpc = "done" => Contents(blocks) = Contents(findSQLBlocks(AsSqlCalls(src)))

\* the first position from k that holds no blank
FirstNonBlank(s, k) ==
    LET ps == {p \in k..(Len(s) - 1) : At(s, p) \notin {" ", "\t", "\n"}}
    IN  IF ps = {} THEN Len(s) ELSE Min(ps)

\* the number of backslashes that end at position p - 1, counted back to lo
RECURSIVE SlashesBefore(_, _, _)
SlashesBefore(s, p, lo) ==
    IF p > lo /\ At(s, p - 1) = "\\" THEN 1 + SlashesBefore(s, p - 1, lo) ELSE 0

\* the quote that closes the one at j: the next one, for the single quote
\* the next one that no backslash escapes
ClosingQuote(s, j) ==
    LET qs == {p \in (j + 1)..(Len(s) - 1) :
                  /\ At(s, p) = At(s, j)
                  /\ At(s, j) = BackQuote \/ SlashesBefore(s, p, j + 1) % 2 = 0}
    IN  IF qs = {} THEN -1 ELSE Min(qs)

\* the next */ from position k
NextCommentClose(s, k) ==
    LET ps == {p \in k..(Len(s) - 2) : At(s, p) = "*" /\ At(s, p + 1) = "/"}
    IN  IF ps = {} THEN -1 ELSE Min(ps)

\* the first position from k that holds no *
FirstNonStar(s, k) ==
    LET ps == {p \in k..(Len(s) - 1) : At(s, p) # "*"}
    IN  IF ps = {} THEN Len(s) ELSE Min(ps)

\* the template body of the literal that opens at j
LiteralBody(s, j) ==
    IF At(s, j) \in {BackQuote, "'"} THEN Slice(s, j + 1, ClosingQuote(s, j))
    ELSE Slice(s, FirstNonStar(s, j + 2), NextCommentClose(s, j + 2))

\* C10: every reported call site starts at its prefix, ends just after a
\* closing parenthesis and has for content the body of its literal: the
\* characters between the quotes, or those after the opening of the comment
\* and its leading stars up to the next */ after that opening.
C10_SpanAndContent ==
    fpc = "done" =>
        \A k \in 1..Len(blocks) :
            LET b == blocks[k]
            IN  /\ HasPrefix(From(src, b.Start), GoxSqlPrefix)
                /\ b.End >= 1
                /\ b.End <= Len(src)
                /\ At(src, b.End - 1) = ")"
                /\ b.Content = LiteralBody(src, FirstNonBlank(src, b.Start + Len(GoxSqlPrefix)))

\* the end of the host token that opens at k: the position after the closing
\* quote of a string literal of any flavour, after the */ of a comment, else
\* after the character (an unterminated literal or comment runs to the end)
HostTokenEnd(s, k) ==
    IF IsQuoteChar(At(s, k))
    THEN IF ClosingQuote(s, k) = -1 THEN Len(s) ELSE ClosingQuote(s, k) + 1
    ELSE IF At(s, k) = "/" /\ k + 1 < Len(s) /\ At(s, k + 1) = "*"
    THEN IF NextCommentClose(s, k + 2) = -1 THEN Len(s) ELSE NextCommentClose(s, k + 2) + 2
    ELSE k + 1

\* the positions at which the host tokens of s open, read from k
RECURSIVE HostTokenStarts(_, _)
HostTokenStarts(s, k) ==
    IF k >= Len(s) THEN {} ELSE {k} \cup HostTokenStarts(s, HostTokenEnd(s, k))

\* position p lies inside a string literal of the host source
InHostLiteral(s, p) ==
    \E k \in HostTokenStarts(s, 0) :
        IsQuoteChar(At(s, k)) /\ k < p /\ p < HostTokenEnd(s, k)

\* a well-formed call with a quoted body opens at p
QuotedCallAt(s, p) ==
    /\ HasPrefix(From(s, p), GoxSqlPrefix)
    /\ LET j == FirstNonBlank(s, p + Len(GoxSqlPrefix))
       IN  /\ j < Len(s)
           /\ At(s, j) \in {BackQuote, "'"}
           /\ ClosingQuote(s, j) # -1
           /\ FirstNonBlank(s, ClosingQuote(s, j) + 1) < Len(s)
           /\ At(s, FirstNonBlank(s, ClosingQuote(s, j) + 1)) = ")"

\* C11: no reported call site has its prefix inside a string literal of the
\* host source, whatever the flavour of the literal, and no literal hides a
\* real call: every well-formed quoted call that opens outside literals and
\* comments is reported.
C11_LiteralsSkipped ==
    fpc = "done" =>
        /\ \A k \in 1..Len(blocks) : ~InHostLiteral(src, blocks[k].Start)
        /\ \A p \in HostTokenStarts(src, 0) :
               QuotedCallAt(src, p) => \E k \in 1..Len(blocks) : blocks[k].Start = p

-----------------------------------------------------------------------------
(* Properties of a Parser over its files.                                  *)

\* a file is being processed and its tokens are known
FileTokenized == fileContent # <<>> /\ pc \in {"tokenized", "run", "hang"}

\* a block token that does not come from the "@{" sigil: a promoted line
Promoted(t) == t.Type = SQLTokenAtBlock /\ At(body, t.Start + 1) # "{"

\* C12: while a file is processed the smart-scope mode is on exactly when the
\* text of that file holds the marker "gox:smart_scope", whatever the files
\* before it held, and the tokens of a file without the marker hold no
\* promoted line.
C12_ModeFromOwnFile ==
    fileContent # <<>> =>
        /\ smartScopeMode <=> Contains(fileContent, SmartScopeMarker)
        /\ ~Contains(fileContent, SmartScopeMarker) =>
               \A k \in 1..Len(tokens) : ~Promoted(tokens[k])

\* the second file of a Parser, without the marker, whose body opens with a
\* control line left open: its tokens start with an ordinary line token
C12_Witness ==
    /\ nfiles = 2
    /\ pc = "tokenized"
    /\ ~Contains(fileContent, SmartScopeMarker)
    /\ body = <<"@", "b", " ", "(", "\n", ")">>
    /\ ~smartScopeMode
    /\ tokens[1].Type = SQLTokenAtLine

\* the line of the "@" at position at, after the "@", up to its end
LineAfterAt(at) == Slice(body, at + 1, LineEndFrom(body, at + 1))

\* the parenthesis that matches the control-flow "(" of the line of the "@"
\* at position at lies beyond the end of that line
ParenClosesLater(at) ==
    /\ findControlStructureParen(LineAfterAt(at)) # -1
    /\ findMatchingParen(From(body, at + 1),
                         findControlStructureParen(LineAfterAt(at)) + 1).end
           >= Len(LineAfterAt(at))

\* C13: with smart-scope active every promoted "@" line has the ")" that
\* matches its control-flow "(" on a later line; a line whose ")" is on the
\* line of the "@", also behind a "{", is not promoted.
C13_PromotedOnlyWhenOpen ==
    (FileTokenized /\ smartScopeMode) =>
        \A k \in 1..Len(tokens) :
            Promoted(tokens[k]) => ParenClosesLater(tokens[k].Start)

\* the position in the body of the ")" that matches the control-flow "(" of
\* the line of the "@" at position at
ControlClose(at) ==
    at + 1 + findMatchingParen(From(body, at + 1),
                               findControlStructureParen(LineAfterAt(at)) + 1).end

\* the body opens with an "@" line whose control-flow "(" closes on a later
\* line, and that line goes on with a matched block of plain host code
OpensWithOpenControl ==
    /\ Len(body) > 1
    /\ At(body, 0) = "@"
    /\ At(body, 1) \notin {"@", "{"}
    /\ ParenClosesLater(0)
    /\ ControlClose(0) + 1 < Len(body)
    /\ At(body, ControlClose(0) + 1) = "{"
    /\ findMatchingBrace(body, ControlClose(0) + 2).end # -1
    /\ SigilFree(findMatchingBrace(body, ControlClose(0) + 2).content)

\* C14: with smart-scope active, for a body that opens with such a line, the
\* emitter outputs first one AddText with the text from after the "@" through
\* the matching ")", then AddText("\n"), then the code of the block, and no
\* AddText("\n") after the code of the block.
C14_TextNewlineThenCode ==
    (smartScopeMode /\ fileContent # <<>> /\ pc \in {"run", "hang"} /\ OpensWithOpenControl) =>
        /\ pc = "run"
        /\ Len(parts) >= 5
        /\ IsTextLiteralCall(parts[2])
        /\ TrimSpace(Unquote(SubSeq(parts[2], 4, Len(parts[2]) - 1)))
               = TrimSpace(Slice(body, 1, ControlClose(0) + 1))
        /\ parts[3] = NewlineCall
        /\ parts[4] = TrimSpace(findMatchingBrace(body, ControlClose(0) + 2).content)
        /\ \A k \in 5..Len(parts) : parts[k] # NewlineCall

\* the positions of the host code stmt where a call of Sql opens outside the
\* string literals
NestedCallsLeft(stmt) ==
    {p \in 0..(Len(stmt) - 1) :
        HasPrefix(From(stmt, p), GoxSqlPrefix) /\ ~InHostLiteral(stmt, p)}

\* C15: the code generated for the template of a call site holds no call of
\* Sql: every call nested in the host code of a CodeBlock has been replaced
\* by the emitter output for its own body.
C15_NoNestedCallLeft ==
    (fileContent # <<>> /\ pc = "run") =>
        \A k \in 1..Len(parts) : NestedCallsLeft(parts[k]) = {}

-----------------------------------------------------------------------------
(* Properties of the QueryBuilder.                                         *)

\* C16: after AddParam(x) the call has not failed; for a slice x of n
\* elements the SQL text has gained n "?" separated by commas and args the n
\* elements in order; for every other x, the nil value included, the SQL text
\* has gained one "?" and args the value x.
C16_AddParamTotal ==
    lastCall.op = "AddParam" =>
        /\ ~qb.panicked
        /\ pc # "panic"
        /\ qb.parts = lastCall.before.parts
                      \o (IF lastCall.arg.kind = "slice"
                          THEN Placeholders(Len(lastCall.arg.elems)) ELSE <<"?">>)
        /\ qb.args = lastCall.before.args
                     \o (IF lastCall.arg.kind = "slice" THEN lastCall.arg.elems ELSE <<lastCall.arg>>)

-----------------------------------------------------------------------------
(* Properties of the driver.                                               *)

\* the path X_gen.go of the input X.gox.go
OwnOutput(t) == SubSeq(t, 1, Len(t) - 1) \o <<"_gen.go">>

\* the input files whose task has written its output in this run
Written == {t \in InputFiles : tasks[t].st = "written"}

\* C17: a task writes the output of its input X.gox.go to X_gen.go, so no
\* two tasks of a run have written the same path.
C17_OwnOutputPath ==
    /\ \A t \in Written : tasks[t].dest = OwnOutput(t)
    /\ \A t1, t2 \in Written : t1 # t2 => tasks[t1].dest # tasks[t2].dest

\* the task of t has been started in a directory run and its file is sound
StartedSound(t) == dpc \in {"walk", "wait"} /\ tasks[t].st = "started" /\ t \notin bad

\* the task of t has returned without error
Completed(t) == tasks[t].st \in {"written", "skipped"}

\* C18: in a directory run every started task of a sound file runs to its
\* end, whatever happens to the tasks of the other files.
C18_SiblingsComplete == \A t \in InputFiles : StartedSound(t) ~> Completed(t)

\* the file the driver writes for an input exists and is not older than the
\* input t
OutputFresh(t) ==
    /\ fsys[AbsPath(opts.DestPath)] # 0
    /\ fsys[AbsPath(opts.DestPath)] >= fsys[t]

\* the step is the incremental test of the task of t
Tested(t) == tasks[t].st = "started" /\ tasks'[t].st # "started"

\* C19: the incremental test of a task skips its file exactly when the mode
\* is incremental and the file the driver writes for that input exists with
\* a modification time not before the input's.
C19_SkipWhenOutputFresh ==
    [][\A t \in InputFiles :
           Tested(t) => (tasks'[t].st = "skipped" <=> (opts.Incremental /\ OutputFresh(t)))]_vars

\* the regular files under the cleanup root that were there, when this run
\* began, with a name that ends in "_gen.go"
ToRemove ==
    {path \in Paths :
        fs0[path] # 0 /\ Under(opts.RemoveGenerated, path) /\ path[Len(path)] = "_gen.go"}

\* a task of this run has written, or this call of Compile has returned
GeneratedOrReturned == (dpc # "idle" /\ Written # {}) \/ (dpc = "idle" /\ runs >= 1)

\* C20: in a run of Compile with RemoveGenerated set, once a file has been
\* generated or Compile has returned, the cleanup has deleted exactly the
\* "_gen.go" files that were under the root when the run began, whatever the
\* other options are, and no other file is gone.
C20_CleanupBeforeGeneration ==
    (opts.RemoveGenerated # <<>> /\ GeneratedOrReturned) =>
        /\ removed = ToRemove
        /\ \A path \in Paths :
               (fs0[path] # 0 /\ path[Len(path)] # "_gen.go") => fsys[path] # 0

-----------------------------------------------------------------------------
(* Properties of the brace matching, the tokenizer and the scanners.       *)

\* the body is one CodeBlock whose code is one "#{...}" sigil, closed by the
\* brace that balances it when the braces inside string literals are ignored
SoleParamInCode ==
    /\ Len(tokens) = 1
    /\ tokens[1].Type = SQLTokenCodeBlock
    /\ HasPrefix(TrimSpace(tokens[1].Content), <<"#", "{">>)
    /\ findMatchingBrace(TrimSpace(tokens[1].Content), 2).end
           = Len(TrimSpace(tokens[1].Content)) - 1

\* C21: the "#{" sweep of processCodeBlockExpressions closes the sigil at the
\* brace that balances it, ignoring braces inside string literals: the code
\* of such a CodeBlock becomes one AddParam call on everything between the
\* "#{" and that brace.
C21_BalancedOutsideLiterals ==
    (fileContent # <<>> /\ pc = "run" /\ ~smartScopeMode /\ SoleParamInCode) =>
        parts[2] = (<<"__gox_sql_0_builder", ".AddParam", "(">>
                    \o TrimSpace(Slice(TrimSpace(tokens[1].Content), 2,
                                       Len(TrimSpace(tokens[1].Content)) - 1)))
                   \o <<")">>

\* the token is the Text token "\n" the tokenizer adds after an "@" line
IsAddedNewline(t) == t.Type = SQLTokenText /\ t.Content = <<"\n">> /\ t.Start = t.End

\* the Text tokens cut from the body that hold the character at position p
TextTokensOver(p) ==
    {k \in 1..Len(tokens) :
        tokens[k].Type = SQLTokenText /\ tokens[k].Start <= p /\ p < tokens[k].End}

\* C22: an "@" line that is not promoted yields its AtLine token followed by
\* one added Text token "\n"; when the line has no bare "{" the terminator of
\* the line is in no Text token that follows, so the line yields one newline.
C22_OneNewlinePerLine ==
    (pc \in {"tokenized", "run", "done"} /\ ~smartScopeMode) =>
        \A k \in 1..Len(tokens) :
            tokens[k].Type = SQLTokenAtLine =>
                /\ k < Len(tokens)
                /\ IsAddedNewline(tokens[k + 1])
                /\ OriginalBracePos(body, tokens[k].Start,
                                    LineEndFrom(body, tokens[k].Start + 1)) = -1
                       => TextTokensOver(LineEndFrom(body, tokens[k].Start + 1)) = {}

\* the characters [A-Za-z0-9_]
IdentChars ==
    {"a", "b", "c", "d", "e", "f", "g", "h", "i", "j", "k", "l", "m", "n",
     "o", "p", "q", "r", "s", "t", "u", "v", "w", "x", "y", "z", "A", "B",
     "C", "D", "E", "F", "G", "H", "I", "J", "K", "L", "M", "N", "O", "P",
     "Q", "R", "S", "T", "U", "V", "W", "X", "Y", "Z", "0", "1", "2", "3",
     "4", "5", "6", "7", "8", "9", "_"}

\* the position after the string literal that opens at k: after its closing
\* quote, or the end of the line when it is not closed
RECURSIVE LiteralEnd(_, _, _)
LiteralEnd(s, j, quote) ==
    IF j >= Len(s) THEN Len(s)
    ELSE IF At(s, j) = quote THEN j + 1
    ELSE IF At(s, j) = "\\" /\ quote # BackQuote THEN LiteralEnd(s, j + 2, quote)
    ELSE LiteralEnd(s, j + 1, quote)

\* the "(" of s from k on that lie outside string literals and outside the
\* parenthesis group of a call and follow no identifier character; depth is
\* the number of parentheses of a call group open at k
RECURSIVE ControlParens(_, _, _)
ControlParens(s, k, depth) ==
    IF k >= Len(s) THEN {}
    ELSE IF At(s, k) \in {"\"", "'", BackQuote}
    THEN ControlParens(s, LiteralEnd(s, k + 1, At(s, k)), depth)
    ELSE IF depth > 0
    THEN ControlParens(s, k + 1,
                       IF At(s, k) = "(" THEN depth + 1
                       ELSE IF At(s, k) = ")" THEN depth - 1 ELSE depth)
    ELSE IF At(s, k) # "(" THEN ControlParens(s, k + 1, 0)
    ELSE IF k > 0 /\ At(s, k - 1) \in IdentChars THEN ControlParens(s, k + 1, 1)
    ELSE {k} \cup ControlParens(s, k + 1, 0)

\* C23: findControlStructureParen returns the last "(" of the line that is
\* outside string literals and outside every skipped call group and follows
\* no identifier character, and -1 when the line has none.
C23_LastControlParen ==
    ctlParen # -2 =>
        ctlParen = (IF ControlParens(ctlLine, 0, 0) = {} THEN -1
                    ELSE Max(ControlParens(ctlLine, 0, 0)))

\* a line with a control parenthesis, a call after it and a parenthesis
\* inside a string literal: the control parenthesis is returned
C23_Witness ==
    /\ ctlLine = <<"(", "f", "(", "\"", "(", "\"">>
    /\ ctlParen = 0

-----------------------------------------------------------------------------
(* Properties of preprocessFile.                                           *)

\* the source from position from on, with the call sites k.. replaced, each
\* by the code generated for it, read from left to right
RECURSIVE RewrittenFrom(_, _)
RewrittenFrom(from, k) ==
    IF k > Len(blocks) THEN From(src, from)
    ELSE (Slice(src, from, blocks[k].Start)
          \o Replacement(blocks[k], Len(blocks) - k, FALSE))
         \o RewrittenFrom(blocks[k].End, k + 1)

\* the code is one expression "func()(__result gox.Query) {...}()"
IsQueryFunc(code) ==
    /\ HasPrefix(code, <<"func", "(", ")", "(", "__result", " ", "gox.Query", ")", " ", "{">>)
    /\ Len(code) >= 13
    /\ SubSeq(code, Len(code) - 2, Len(code)) = <<"}", "(", ")">>

\* the reported spans lie in the source, one after the other
SpansInOrder ==
    \A k \in 1..Len(blocks) :
        /\ 0 <= blocks[k].Start
        /\ blocks[k].Start < blocks[k].End
        /\ blocks[k].End <= Len(src)
        /\ k < Len(blocks) => blocks[k].End <= blocks[k + 1].Start

\* C24: the output of preprocessFile is the source with each reported span
\* replaced by one query function expression and every character outside
\* the spans unchanged and in its order, and the reported spans are disjoint
\* and increasing.
C24_OnlySpansChange ==
    fpc = "returned" =>
        /\ SpansInOrder
        /\ processed = RewrittenFrom(0, 1)
        /\ \A k \in 1..Len(blocks) : IsQueryFunc(Replacement(blocks[k], Len(blocks) - k, FALSE))

\* a source with two call sites and text between them has been rewritten
C24_Witness ==
    /\ fpc = "returned"
    /\ Len(blocks) = 2
    /\ blocks[1].End < blocks[2].Start
    /\ processed # src

\* the tokenizer loop takes an iteration in this step
TokIteration == pc = "tokenize" /\ i < Len(body) /\ pc' = "tokenize"

\* the cursor after the iteration the loop is about to take
NextCursor == TokStep(body, smartScopeMode, TokState).i

\* the loop has an iteration to take, and it moves the cursor forward
IterationAdvances ==
    (pc = "tokenize" /\ i < Len(body)) => (NextCursor > i /\ NextCursor <= Len(body))

\* C25: every iteration of the loop of tokenizeSQLContent strictly increases
\* the cursor and leaves it at most at the length of the body, in every
\* branch and in either mode, so the loop ends on every finite body: the
\* distance of the cursor from the end of the body falls at every iteration.
C25_CursorAdvances ==
    /\ [](i <= Len(body))
    /\ []IterationAdvances
    /\ [][TokIteration => (i' > i /\ i' <= Len(body) /\ body' = body)]_vars

\* a promoted @ line has been passed
C25_Witness ==
    /\ pc = "tokenized"
    /\ smartScopeMode
    /\ \E t \in 1..Len(tokens) :
          /\ tokens[t].Type = SQLTokenAtBlock
          /\ At(body, tokens[t].Start + 1) # "{"
          /\ tokens[t].End > tokens[t].Start + 4

-----------------------------------------------------------------------------
(* Properties of the QueryBuilder and of the Queries it builds.            *)

\* number of "?" in a text
RECURSIVE CountPlaceholders(_)
CountPlaceholders(s) ==
    IF s = <<>> THEN 0
    ELSE (IF Head(s) = "?" THEN 1 ELSE 0) + CountPlaceholders(Tail(s))

\* a Query with as many placeholders as arguments
BalancedQuery(v) == v.kind = "query" /\ CountPlaceholders(v.s) = Len(v.elems)

\* the calls the property is about
AllowedCall(c) ==
    \/ c.op = "AddParam" /\ c.arg.kind # "nil"
    \/ c.op = "AddText" /\ c.arg.kind = "string" /\ CountPlaceholders(c.arg.s) = 0
    \/ c.op = "AddText" /\ BalancedQuery(c.arg)

\* the arguments a call supplies
SuppliedBy(c) ==
    IF c.op = "AddParam"
    THEN (IF c.arg.kind = "slice" THEN c.arg.elems ELSE <<c.arg>>)
    ELSE (IF c.arg.kind = "query" THEN c.arg.elems ELSE <<>>)

\* the arguments the calls k.. supply, in the order of the calls
RECURSIVE SuppliedFrom(_)
SuppliedFrom(k) ==
    IF k > Len(callLog) THEN <<>> ELSE SuppliedBy(callLog[k]) \o SuppliedFrom(k + 1)

\* C26: for a builder driven by AddParam calls with non-nil values, AddText
\* calls with strings without "?" and AddText calls with Queries that have as
\* many placeholders as arguments, the text Build returns has as many "?" as
\* the Query has arguments, and the arguments are in the order of the calls
\* that supplied them.
C26_PlaceholdersMatchArgs ==
    (pc = "built" /\ \A k \in 1..Len(callLog) : AllowedCall(callLog[k])) =>
        /\ CountPlaceholders(query.sql) = Len(query.args)
        /\ query.args = SuppliedFrom(1)

\* a slice, a Query and a string have been added, and the Query is built
C26_Witness ==
    /\ pc = "built"
    /\ Len(callLog) = 3
    /\ \A k \in 1..Len(callLog) : AllowedCall(callLog[k])
    /\ \E k \in 1..3 : callLog[k].op = "AddParam" /\ callLog[k].arg.kind = "slice"
                        /\ Len(callLog[k].arg.elems) = 2
    /\ \E k \in 1..3 : callLog[k].op = "AddText" /\ callLog[k].arg.kind = "query"
    /\ \E k \in 1..3 : callLog[k].op = "AddText" /\ callLog[k].arg.kind = "string"
                        /\ callLog[k].arg.s # <<>>

\* C27: a Query returned by Build is independent of the builder and of the
\* other Queries built from it: its text and the elements of its args are
\* what its own last operation (Build, or its own AddArg) left, whatever is
\* called on the builder or on another Query afterwards.
C27_BuiltQueryIndependent ==
    \A k \in 1..Len(held) :
        /\ held[k].sql = kept[k].sql
        /\ Elements(heap, held[k].args) = kept[k].args

-----------------------------------------------------------------------------
(* Properties of processDirectory.                                         *)

\* Compile is given a directory to process
DirectoryRun == opts.SingleFile = <<>> /\ IsDir(AbsPath(opts.SrcPath))

\* the files under the directory whose path ends in ".gox.go", as the run
\* found them
DirFiles == {path \in Paths : /\ fs0[path] # 0
                              /\ Under(AbsPath(opts.SrcPath), path)
                              /\ HasNameSuffix(path, ".gox.go")}

\* processDirectory has returned and Compile with it
DirectoryReturned == DirectoryRun /\ dpc = "idle" /\ runs >= 1

-----------------------------------------------------------------------------
(* Properties of parseSQLBlock.                                            *)

\* the end of the @ shorthand at position at: the line end, or the brace on
\* the line with the blanks before it left out
AtEndOf(content, at) ==
    IF OriginalBracePos(content, at, LineEndFrom(content, at + 1)) # -1
    THEN TrimBlanksBack(content,
                        OriginalBracePos(content, at, LineEndFrom(content, at + 1)), at + 1)
    ELSE LineEndFrom(content, at + 1)

\* the verdict of trySmartScopeProcessing on the @ shorthand at position at
SmartResultAt(content, smart, at) ==
    trySmartScopeProcessing(smart, at, Slice(content, at + 1, AtEndOf(content, at)),
                            From(content, at + 1), content)

\* the slices the tokenizer takes of the body at its next iteration lie in
\* the body: content[textStart:i], content[i+1:atEnd], content[i+1:] and
\* totalContent[basePos+1:blockEndLine]
SlicesInBounds ==
    /\ 0 <= textStart
    /\ textStart <= i
    /\ i <= Len(body)
    /\ (i < Len(body) /\ TokBranch(body, i) = "atline") =>
           /\ i + 1 <= AtEndOf(body, i)
           /\ AtEndOf(body, i) <= Len(body)
           /\ SmartResultAt(body, smartScopeMode, i).ShouldHandle =>
                  /\ i + 1 <= SmartResultAt(body, smartScopeMode, i).LineEndPos
                  /\ SmartResultAt(body, smartScopeMode, i).LineEndPos <= Len(body)

\* C29: parseSQLBlock returns no error whatever the template body is, so
\* preprocessFile never takes its error return, and the tokenizer never
\* reads or slices outside the body.
C29_NoParseError ==
    /\ pc # "failed"
    /\ pc = "tokenize" => SlicesInBounds

\* parseSQLBlock has returned for a body with an opener that nothing closes
\* and with a promoted @ line, and preprocessFile went on
C29_Witness ==
    /\ fileContent # <<>>
    /\ pc \in {"run", "hang"}
    /\ smartScopeMode
    /\ \E t \in 1..Len(tokens) :
          /\ tokens[t].Type = SQLTokenAtBlock
          /\ At(body, tokens[t].Start + 1) # "{"
    /\ \E k \in 0..(Len(body) - 1) :
          /\ At(body, k) = "{"
          /\ findMatchingBrace(body, k + 1).end = -1

-----------------------------------------------------------------------------
(* Properties of the import injection.                                     *)

\* the line opens an import block, is a single-line import, closes a block
OpensImportBlock(line) == TrimSpace(line) = ImportOpen
IsSingleImport(line) == HasPrefix(TrimSpace(line), ImportWord \o <<" ", "\"">>)
ClosesImportBlock(line) == TrimSpace(line) = ImportClose

\* the lines of a code that are neither an import declaration nor inside an
\* import block, in their order
RECURSIVE NonImportLines(_, _, _)
NonImportLines(lines, k, inBlock) ==
    IF k > Len(lines) THEN <<>>
    ELSE IF inBlock
    THEN NonImportLines(lines, k + 1, ~ClosesImportBlock(lines[k]))
    ELSE IF OpensImportBlock(lines[k]) THEN NonImportLines(lines, k + 1, TRUE)
    ELSE IF IsSingleImport(lines[k]) THEN NonImportLines(lines, k + 1, FALSE)
    ELSE <<lines[k]>> \o NonImportLines(lines, k + 1, FALSE)

\* the paths a code imports
RECURSIVE ImportedPaths(_, _, _)
ImportedPaths(lines, k, inBlock) ==
    IF k > Len(lines) THEN {}
    ELSE IF inBlock
    THEN (IF IsQuoted(TrimSpace(lines[k])) THEN {TrimQuotes(TrimSpace(lines[k]))} ELSE {})
         \cup ImportedPaths(lines, k + 1, ~ClosesImportBlock(lines[k]))
    ELSE IF OpensImportBlock(lines[k]) THEN ImportedPaths(lines, k + 1, TRUE)
    ELSE IF IsSingleImport(lines[k])
    THEN {TrimQuotes(SubSeq(TrimSpace(lines[k]), Len(ImportWord) + 2, Len(TrimSpace(lines[k]))))}
         \cup ImportedPaths(lines, k + 1, FALSE)
    ELSE ImportedPaths(lines, k + 1, FALSE)

\* a is b with some lines left out
RECURSIVE IsSubsequence(_, _)
IsSubsequence(a, b) ==
    IF a = <<>> THEN TRUE
    ELSE IF b = <<>> THEN FALSE
    ELSE IF Head(a) = Head(b) THEN IsSubsequence(Tail(a), Tail(b))
    ELSE IsSubsequence(a, Tail(b))

\* C30: the import injection changes only import declarations: the lines of
\* the code that are neither an import declaration nor inside an import
\* block are in the output unchanged and in their order, for a block import
\* and for a single-line import, and every path the code imported is still
\* imported.
C30_OnlyImportsChange ==
    gpc = "done" =>
        /\ IsSubsequence(NonImportLines(genCode, 1, FALSE), outLines)
        /\ ImportedPaths(genCode, 1, FALSE) \subseteq ImportedPaths(outLines, 1, FALSE)

====
